---- MODULE Spec2Model ----
(***************************************************************************)
(* Sentinel AI backend: the per-claim verification workflow                *)
(* (app/services/verification_orchestrator.py), the verdict synthesizers   *)
(* (app/services/synthesizer_service.py), the candidate store              *)
(* (app/db/crud.py) and the scanner supervisor's selection and             *)
(* deep-gathering scheduler (app/services/scanner_service.py).             *)
(*                                                                         *)
(* The specifications share the store variables:                           *)
(*   SpecRun    one execution of run_verification_pipeline                 *)
(*   SpecStore  concurrent create_timeline_item calls on one table         *)
(*   SpecSelect perform_agentic_selection / _fallback_pruning              *)
(*   SpecSched  run_deep_gathering_phase                                   *)
(*   SpecConclude  synthesize_crisis_conclusion on one crisis              *)
(*   SpecCycle  the supervisor loop start_monitoring (FairSpecCycle: with  *)
(*              every step of the loop eventually taken)                   *)
(***************************************************************************)
EXTENDS Integers, Sequences, FiniteSets, TLC

VARIABLES
  \* --- candidate store (crud.py) ---
  crises,            \* id -> Crisis row
  timeline_items,    \* id -> TimelineItem row
  adhoc_analyses,    \* id -> AdHocAnalysis row
  now,               \* wall clock, seconds (time.time() / datetime.utcnow())
  \* --- one verification run (verification_orchestrator.py) ---
  state,             \* VerificationState
  pc,                \* position of run_verification_pipeline
  pending,           \* gatherer nodes of the current superstep still to run
  gather_calls,      \* node -> number of invocations of its gatherer
  trace,             \* phases entered so far, in order
  hits_log,          \* total_hits computed by each node_assessor call
  gather_queries,    \* node -> the queries its gatherer was called with
  gather_ret,        \* node -> what its gatherer did in its latest call
  conclude_calls,    \* invocations of synthesize_crisis_conclusion by the run
  adhoc_log,         \* statuses the run's AdHocAnalysis took, in order
  oracle_out,        \* Oracle of the run -> what its latest call did
  store_errors,      \* store operations of SYNTHESIZE that raised
  oracle_calls,      \* Oracle -> number of generate_content_async calls
  \* --- concurrent create_timeline_item callers ---
  w_pc, w_args, w_ret,
  \* --- selection phase (scanner_service.py) ---
  sel_pc, sel_oracle, sel_fetched,
  \* --- deep-gathering scheduler (scanner_service.py) ---
  sched_pc, normal_queue_ptr, last_scan_times, batch, batch_log,
  \* --- one synthesize_crisis_conclusion call (synthesizer_service.py) ---
  con_pc, con_crisis_id,
  con_answer,        \* what the conclusion Oracle answered in that call
  \* --- interleaved synthesize_crisis_conclusion calls on one crisis ---
  inv_pc,            \* invocation -> its position
  inv_loaded,        \* invocation -> the Crisis object its session holds
  inv_answer,        \* invocation -> the verdict its Oracle call returned
  inv_writes,        \* invocations in the order of their commits
  \* --- the deep-scan units of one batch (process_single_crisis_task) ---
  u_pc,              \* unit -> its position
  u_queries,         \* unit -> search queries still to run
  u_claims,          \* unit -> extracted claims still to look at
  u_run,             \* unit -> claim_text of its Verification Run in flight
  u_started,         \* unit -> claim_texts it started a run for
  u_concluded,       \* unit -> its unit-level calls of the conclusion
  \* --- one Discovery pass of the supervisor (start_monitoring 376-420) ---
  disc_pc,           \* position of the pass
  is_first_run,      \* start_monitoring's flag of the same name
  notifications,     \* the notifications table, in creation order
  new_threats,       \* what run_discovery_phase returned to the supervisor
  \* --- the signal sources of Discovery (run_discovery_phase 262-276) ---
  merge_pc,          \* position of the merge
  feed_results,      \* feed -> the articles _parse_single_feed returned
  social_hits,       \* what _perform_social_listening returned
  all_items,         \* the list handed to filter_relevant_headlines
  \* --- the supervisor loop (scanner_service.py start_monitoring) ---
  cyc_pc,            \* phase the supervisor is in
  cycles,            \* completed cycles
  store_healthy,     \* whether every store operation succeeds
  seeds,             \* detached seeding runs not yet executed
  deep_start,        \* start_time of the running deep-gathering phase
  cyc_op             \* the operation the latest step performed

storeVars == <<crises, timeline_items, adhoc_analyses, now>>
runVars   == <<state, pc, pending, gather_calls, trace, hits_log, gather_queries,
               gather_ret, conclude_calls, adhoc_log,
               oracle_out, store_errors>>
workVars  == <<w_pc, w_args, w_ret>>
selVars   == <<sel_pc, sel_oracle, sel_fetched>>
schedVars == <<sched_pc, normal_queue_ptr, last_scan_times, batch, batch_log>>
conVars   == <<con_pc, con_crisis_id, con_answer>>
callVars  == <<inv_pc, inv_loaded, inv_answer, inv_writes>>
unitVars  == <<u_pc, u_queries, u_claims, u_run, u_started, u_concluded>>
discVars  == <<disc_pc, is_first_run, notifications, new_threats>>
mergeVars == <<merge_pc, feed_results, social_hits, all_items>>
invVars   == <<callVars, unitVars, discVars, mergeVars>>
cycVars   == <<cyc_pc, cycles, store_healthy, seeds, deep_start, cyc_op>>
vars == <<crises, timeline_items, adhoc_analyses, now,
          state, pc, pending, gather_calls, trace, hits_log, gather_queries,
          gather_ret, conclude_calls, adhoc_log,
          oracle_out, store_errors,
          oracle_calls,
          w_pc, w_args, w_ret,
          sel_pc, sel_oracle, sel_fetched,
          sched_pc, normal_queue_ptr, last_scan_times, batch, batch_log,
          con_pc, con_crisis_id, con_answer,
          inv_pc, inv_loaded, inv_answer, inv_writes,
          u_pc, u_queries, u_claims, u_run, u_started, u_concluded,
          disc_pc, is_first_run, notifications, new_threats,
          merge_pc, feed_results, social_hits, all_items,
          cyc_pc, cycles, store_healthy, seeds, deep_start, cyc_op>>

(***************************************************************************)
(* Bounds of the model                                                     *)
(***************************************************************************)
MaxEvidence == 1      \* longest evidence list a gatherer returns

(***************************************************************************)
(* Program constants                                                       *)
(***************************************************************************)
MAX_RETRIES == 1
None == 0             \* Optional[UUID] = None; real ids are positive
start_time == 1000    \* the wall clock when the modelled operation starts

\* ------------------------------------------------------------------------
\* Small helpers
\* ------------------------------------------------------------------------
Min(a, b) == IF a < b THEN a ELSE b

\* s[:n] of a Python string or list
Prefix(s, n) == SubSeq(s, 1, Min(Len(s), n))

\* "sub in s" for Python strings
Contains(sub, s) ==
  \E i \in 1..(Len(s) - Len(sub) + 1) : SubSeq(s, i, i + Len(sub) - 1) = sub

\* [x for x in list if P(x)]
RECURSIVE SelectSeqOf(_, _)
SelectSeqOf(list, keep) ==
  IF list = <<>> THEN <<>>
  ELSE (IF Head(list) \in keep THEN <<Head(list)>> ELSE <<>>)
       \o SelectSeqOf(Tail(list), keep)

SeqRange(s) == {s[i] : i \in 1..Len(s)}

\* all sequences over S of length at most n
SeqsUpTo(S, n) == UNION {[1..k -> S] : k \in 0..n}

(***************************************************************************)
(* Candidate store: crud.py                                                *)
(***************************************************************************)
get_crisis(tbl, crisis_id) ==
  IF crisis_id \in DOMAIN tbl THEN crisis_id ELSE None

\* rows of the table with this claim_text (at most one, by the unique column)
get_timeline_item_by_claim_text(tbl, claim_text) ==
  LET hit == {i \in DOMAIN tbl : tbl[i].claim_text = claim_text}
  IN  IF hit = {} THEN None ELSE CHOOSE i \in hit : TRUE

get_timeline_items(tbl, crisis_id) ==
  {i \in DOMAIN tbl : tbl[i].crisis_id = crisis_id}

FreshId(tbl) == IF DOMAIN tbl = {} THEN 1
                ELSE 1 + (CHOOSE m \in DOMAIN tbl : \A j \in DOMAIN tbl : j <= m)

\* mutant: the claim_text column is not declared unique
InsertAllowed_not_unique(tbl, ctbl, row) ==
  row.crisis_id \in DOMAIN ctbl

\* db.add(item); await db.commit(): the INSERT is refused (IntegrityError) when
\* the unique claim_text column or the crises.id foreign key is violated.
InsertAllowed(tbl, ctbl, row) ==
  /\ \A i \in DOMAIN tbl : tbl[i].claim_text # row.claim_text
  /\ row.crisis_id \in DOMAIN ctbl

InsertRow(tbl, row) ==
  LET id == FreshId(tbl)
  IN  [i \in DOMAIN tbl \cup {id} |-> IF i = id THEN row ELSE tbl[i]]

\* item = TimelineItem(...); db.add(item); await db.commit(): [tbl, ret, raised]
create_commit(tbl, ctbl, row) ==
  IF InsertAllowed(tbl, ctbl, row)
    THEN [tbl |-> InsertRow(tbl, row), ret |-> FreshId(tbl), raised |-> FALSE]
    ELSE [tbl |-> tbl, ret |-> None, raised |-> TRUE]

\* mutant: an existing row is overwritten with the new values (an upsert)
create_timeline_item_upsert(tbl, ctbl, crisis_id, claim_text, summary, status) ==
  LET existing == get_timeline_item_by_claim_text(tbl, claim_text)
      row == [crisis_id |-> crisis_id, claim_text |-> claim_text,
              summary |-> summary, status |-> status]
  IN  IF existing # None
        THEN [tbl |-> [tbl EXCEPT ![existing] = row], ret |-> existing,
              raised |-> FALSE]
        ELSE create_commit(tbl, ctbl, row)

\* create_timeline_item run without interruption: [tbl, ret, raised]
create_timeline_item(tbl, ctbl, crisis_id, claim_text, summary, status) ==
  LET existing == get_timeline_item_by_claim_text(tbl, claim_text)
      row == [crisis_id |-> crisis_id, claim_text |-> claim_text,
              summary |-> summary, status |-> status]
  IN  IF existing # None
        THEN [tbl |-> tbl, ret |-> existing, raised |-> FALSE]
        ELSE create_commit(tbl, ctbl, row)

update_timeline_item(tbl, item_id, status, summary) ==
  IF item_id \in DOMAIN tbl
    THEN [tbl EXCEPT ![item_id].status = status, ![item_id].summary = summary]
    ELSE tbl

update_adhoc_analysis(tbl, analysis_id, status, verdict) ==
  IF analysis_id \in DOMAIN tbl
    THEN [tbl EXCEPT ![analysis_id] =
            IF verdict.present
              THEN [status |-> status, verdict_status |-> verdict.status,
                    verdict_summary |-> verdict.summary]
              ELSE [@ EXCEPT !.status = status]]
    ELSE tbl

\* mutant: the update also writes the severity column
update_crisis_verdict_writes_severity(tbl, crisis_id, verdict_status, verdict_summary, t) ==
  IF crisis_id \in DOMAIN tbl
    THEN [tbl EXCEPT ![crisis_id].verdict_status = verdict_status,
                     ![crisis_id].verdict_summary = verdict_summary,
                     ![crisis_id].severity = 100,
                     ![crisis_id].updated_at = t]
    ELSE tbl

update_crisis_verdict(tbl, crisis_id, verdict_status, verdict_summary, t) ==
  IF crisis_id \in DOMAIN tbl
    THEN [tbl EXCEPT ![crisis_id].verdict_status = verdict_status,
                     ![crisis_id].verdict_summary = verdict_summary,
                     ![crisis_id].updated_at = t]
    ELSE tbl

NoVerdict == [present |-> FALSE, status |-> "", summary |-> ""]
Verdict(status, summary) == [present |-> TRUE, status |-> status, summary |-> summary]


(***************************************************************************)
(* Verification workflow: verification_orchestrator.py                     *)
(***************************************************************************)
GovReport      == "Gov Report: No floods detected."
NoResultsFound == "No results found for this query."
FloodArticle   == "Flood hits Downtown, mayor confirms."

ClaimText == "Flood reported in Downtown"
SeedClaim == "Signal Detected: Downtown Flood"
Locations == {"Unknown", "Downtown"}

Gatherers == {"official", "media", "debunker"}

\* what a gatherer call does: returns a list of evidence strings, or raises
GatherOutcomes(items) ==
  {[ok |-> TRUE, items |-> l] : l \in SeqsUpTo(items, MaxEvidence)}
    \cup {[ok |-> FALSE, items |-> <<>>]}

\* gather_ret before the gatherer's first call
NothingReturned == [ok |-> FALSE, items |-> <<>>]

\* the strings each gatherer may return
OfficialItems == {GovReport, NoResultsFound}
MediaItems    == {FloodArticle, NoResultsFound}
DebunkItems   == {FloodArticle, NoResultsFound}

\* mutant: the evidence key accumulates over the rounds (a list reducer)
node_official_checker_accumulates(st, out) ==
  [st EXCEPT !.official_evidence = @ \o (IF out.ok THEN out.items ELSE <<>>)]

node_official_checker(st, out) ==
  [st EXCEPT !.official_evidence = IF out.ok THEN out.items ELSE <<>>]

\* mutant: a failure of the media gatherer discards the whole round
node_media_cross_referencer_failure_clears_all(st, out) ==
  IF out.ok THEN [st EXCEPT !.media_evidence = out.items]
  ELSE [st EXCEPT !.official_evidence = <<>>, !.media_evidence = <<>>,
                  !.debunk_evidence = <<>>]

node_media_cross_referencer(st, out) ==
  [st EXCEPT !.media_evidence = IF out.ok THEN out.items ELSE <<>>]

node_debunker(st, out) ==
  [st EXCEPT !.debunk_evidence = IF out.ok THEN out.items ELSE <<>>]

\* [x for x in ev if "No " not in x[:10]]
RealEvidence(ev) ==
  SelectSeqOf(ev, {x \in SeqRange(ev) : ~Contains("No ", Prefix(x, 10))})

total_hits(st) ==
  Len(RealEvidence(st.official_evidence)) + Len(RealEvidence(st.media_evidence))
    + Len(RealEvidence(st.debunk_evidence))

\* mutant: the retry budget compared with <= instead of <
node_assessor_retry_le(st) ==
  IF total_hits(st) = 0 /\ st.retry_count <= MAX_RETRIES
    THEN [st EXCEPT !.status = "NEEDS_REFINEMENT"]
    ELSE [st EXCEPT !.status = "READY_TO_SYNTHESIZE"]

node_assessor(st) ==
  IF total_hits(st) = 0 /\ st.retry_count < MAX_RETRIES
    THEN [st EXCEPT !.status = "NEEDS_REFINEMENT"]
    ELSE [st EXCEPT !.status = "READY_TO_SYNTHESIZE"]

\* mutant: the router ignores the assessor's status
router_logic_always_synthesize(st) == "synthesize"

router_logic(st) ==
  IF st.status = "NEEDS_REFINEMENT" THEN "refine" ELSE "synthesize"

\* str.strip() and str.replace('"', '')
Whitespace == {" ", "\n", "\t"}
RECURSIVE LStrip(_)
LStrip(s) == IF s # "" /\ SubSeq(s, 1, 1) \in Whitespace
               THEN LStrip(SubSeq(s, 2, Len(s))) ELSE s
RECURSIVE RStrip(_)
RStrip(s) == IF s # "" /\ SubSeq(s, Len(s), Len(s)) \in Whitespace
               THEN RStrip(SubSeq(s, 1, Len(s) - 1)) ELSE s
Strip(s) == RStrip(LStrip(s))
RECURSIVE RemoveQuotes(_)
RemoveQuotes(s) ==
  IF s = "" THEN ""
  ELSE (IF SubSeq(s, 1, 1) = "\"" THEN "" ELSE SubSeq(s, 1, 1))
       \o RemoveQuotes(SubSeq(s, 2, Len(s)))

\* the refinement Oracle: a response text, or an exception
RefineOutcomes ==
  {[ok |-> TRUE, text |-> t] : t \in {"Downtown flood", " \"Flood Downtown\"\n"}}
    \cup {[ok |-> FALSE, text |-> ""]}

\* mutant: the failure branch forgets to increment retry_count
node_query_refiner_no_increment(st, out) ==
  IF out.ok
    THEN [st EXCEPT !.current_query = RemoveQuotes(Strip(out.text)),
                    !.retry_count = st.retry_count + 1,
                    !.official_evidence = <<>>,
                    !.media_evidence = <<>>,
                    !.debunk_evidence = <<>>]
    ELSE st

\* mutant: a failed refinement falls back to the bare claim text
node_query_refiner_failure_resets_query(st, out) ==
  IF out.ok
    THEN [st EXCEPT !.current_query = RemoveQuotes(Strip(out.text)),
                    !.retry_count = st.retry_count + 1,
                    !.official_evidence = <<>>,
                    !.media_evidence = <<>>,
                    !.debunk_evidence = <<>>]
    ELSE [st EXCEPT !.retry_count = st.retry_count + 1,
                    !.current_query = st.claim_text]

node_query_refiner(st, out) ==
  IF out.ok
    THEN [st EXCEPT !.current_query = RemoveQuotes(Strip(out.text)),
                    !.retry_count = st.retry_count + 1,
                    !.official_evidence = <<>>,
                    !.media_evidence = <<>>,
                    !.debunk_evidence = <<>>]
    ELSE [st EXCEPT !.retry_count = st.retry_count + 1]

(***************************************************************************)
(* Verdict synthesis: synthesizer_service.py                               *)
(***************************************************************************)
VerificationStatus == {"VERIFIED", "DEBUNKED", "UNCONFIRMED"}
OracleSummary == "Oracle summary of the evidence."
SystemErrorSummary == "System error during verification synthesis."

\* the synthesis Oracle: a JSON verdict, text that is not JSON, or an exception
SynthOutcomes ==
  {[kind |-> "ok", status |-> s] : s \in VerificationStatus}
    \cup {[kind |-> "malformed", status |-> ""], [kind |-> "raise", status |-> ""]}

\* what the store does with the operations of one synthesize_evidence call:
\* all succeed, the first one raises, or every one raises
StoreOutcomes == {"ok", "fail", "down"}

\* mutant: the except branch only logs
synthesizer_except_only_logs(items, adhoc, adhoc_analysis_id, ok, errors) ==
  [items |-> items, adhoc |-> adhoc, errors |-> errors]

\* lines 191-195: the except branch, entered with the store as it was;
\* ok says whether the store accepts the FAILED update
synthesizer_except(items, adhoc, adhoc_analysis_id, ok, errors) ==
  IF adhoc_analysis_id = None THEN [items |-> items, adhoc |-> adhoc, errors |-> errors]
  ELSE IF ok
    THEN [items |-> items,
          adhoc |-> update_adhoc_analysis(adhoc, adhoc_analysis_id, "FAILED", NoVerdict),
          errors |-> errors]
    ELSE [items |-> items, adhoc |-> adhoc, errors |-> errors + 1]

\* mutant: the timeline-item target is tried before the adhoc-analysis target
synthesize_evidence_timeline_first(items, adhoc, ctbl, claim, crisis_id, adhoc_analysis_id, timeline_item_id, out, store) ==
  LET result == IF out.kind = "ok" THEN Verdict(out.status, OracleSummary)
                ELSE Verdict("UNCONFIRMED", SystemErrorSummary)
      created == create_timeline_item(items, ctbl, crisis_id, claim,
                                      result.summary, result.status)
  IN  IF out.kind = "raise"
        THEN synthesizer_except(items, adhoc, adhoc_analysis_id, store = "ok", 0)
      ELSE IF timeline_item_id # None
        THEN IF store = "ok"
               THEN [items |-> update_timeline_item(items, timeline_item_id,
                                                    result.status, result.summary),
                     adhoc |-> adhoc, errors |-> 0]
               ELSE synthesizer_except(items, adhoc, adhoc_analysis_id, store = "fail", 1)
      ELSE IF adhoc_analysis_id # None
        THEN IF store = "ok"
               THEN [items |-> items,
                     adhoc |-> update_adhoc_analysis(adhoc, adhoc_analysis_id,
                                                     "COMPLETED", result),
                     errors |-> 0]
               ELSE synthesizer_except(items, adhoc, adhoc_analysis_id, store = "fail", 1)
      ELSE IF crisis_id # None
        THEN IF store = "ok" /\ ~created.raised
               THEN [items |-> created.tbl, adhoc |-> adhoc, errors |-> 0]
               ELSE [items |-> items, adhoc |-> adhoc, errors |-> 1]
      ELSE [items |-> items, adhoc |-> adhoc, errors |-> 0]

\* the store after synthesize_evidence, and the number of store operations
\* that raised: [items, adhoc, errors]
synthesize_evidence(items, adhoc, ctbl, claim, crisis_id, adhoc_analysis_id, timeline_item_id, out, store) ==
  LET result == IF out.kind = "ok" THEN Verdict(out.status, OracleSummary)
                ELSE Verdict("UNCONFIRMED", SystemErrorSummary)
      created == create_timeline_item(items, ctbl, crisis_id, claim,
                                      result.summary, result.status)
  IN  IF out.kind = "raise"
        THEN synthesizer_except(items, adhoc, adhoc_analysis_id, store = "ok", 0)
      ELSE IF adhoc_analysis_id # None
        THEN IF store = "ok"
               THEN [items |-> items,
                     adhoc |-> update_adhoc_analysis(adhoc, adhoc_analysis_id,
                                                     "COMPLETED", result),
                     errors |-> 0]
               ELSE synthesizer_except(items, adhoc, adhoc_analysis_id, store = "fail", 1)
      ELSE IF timeline_item_id # None
        THEN IF store = "ok"
               THEN [items |-> update_timeline_item(items, timeline_item_id,
                                                    result.status, result.summary),
                     adhoc |-> adhoc, errors |-> 0]
               ELSE [items |-> items, adhoc |-> adhoc, errors |-> 1]
      ELSE IF crisis_id # None
        THEN IF store = "ok" /\ ~created.raised
               THEN [items |-> created.tbl, adhoc |-> adhoc, errors |-> 0]
               ELSE [items |-> items, adhoc |-> adhoc, errors |-> 1]
      ELSE [items |-> items, adhoc |-> adhoc, errors |-> 0]

MasterVerdicts == {"CONFIRMED SITUATION", "LETHAL MISINFORMATION"}
ConclusionSummary == "Strategic summary for the public."

\* the conclusion Oracle: a verdict, or a failure (exception or malformed JSON)
ConclusionOutcomes ==
  {[ok |-> TRUE, verdict_status |-> v] : v \in MasterVerdicts}
    \cup {[ok |-> FALSE, verdict_status |-> ""]}

\* the Oracle is called once, unless the early return of line 208 is taken
conclusion_oracle_calls(ctbl, items, crisis_id) ==
  IF get_crisis(ctbl, crisis_id) = None \/ get_timeline_items(items, crisis_id) = {}
    THEN 0 ELSE 1

\* the crises table after synthesize_crisis_conclusion
synthesize_crisis_conclusion(ctbl, items, crisis_id, out, t) ==
  IF get_crisis(ctbl, crisis_id) = None \/ get_timeline_items(items, crisis_id) = {}
    THEN ctbl
  ELSE IF ~out.ok THEN ctbl
  ELSE update_crisis_verdict(ctbl, crisis_id, out.verdict_status,
                             ConclusionSummary, t)

(***************************************************************************)
(* run_verification_pipeline as a state machine                            *)
(***************************************************************************)
\* the Oracles a verification run consults, and the value before any call
RunOracles == {"refinement", "synthesis", "conclusion"}
NotCalled == [kind |-> "none"]

\* the Oracles: one generate_content_async call site each
Oracles == {"refinement", "synthesis", "conclusion", "selection"}
NoOracleCalls == oracle_calls = [o \in Oracles |-> 0]

IdleRun ==
  /\ state = [claim_text |-> "", current_query |-> "", location |-> "",
              crisis_id |-> None, adhoc_analysis_id |-> None,
              timeline_item_id |-> None,
              official_evidence |-> <<>>, media_evidence |-> <<>>,
              debunk_evidence |-> <<>>, retry_count |-> 0, status |-> "IDLE"]
  /\ pc = "IDLE"
  /\ pending = {}
  /\ gather_calls = [g \in Gatherers |-> 0]
  /\ trace = <<>>
  /\ hits_log = <<>>
  /\ gather_queries = [g \in Gatherers |-> <<>>]
  /\ gather_ret = [g \in Gatherers |-> NothingReturned]
  /\ conclude_calls = 0
  /\ adhoc_log = <<>>
  /\ oracle_out = [o \in RunOracles |-> NotCalled]
  /\ store_errors = 0

IdleWork == w_pc = <<>> /\ w_args = <<>> /\ w_ret = <<>>
IdleSel == sel_pc = "IDLE" /\ sel_oracle = "" /\ sel_fetched = <<>>
IdleSched ==
  /\ sched_pc = "IDLE" /\ normal_queue_ptr = 0 /\ last_scan_times = <<>>
  /\ batch = <<>> /\ batch_log = <<>>

\* cyc_op: the operation the last step performed and whether a collaborator
\* of it failed
NoOp == [op |-> "", failed |-> FALSE]

NumInvocations == 2   \* interleaved conclusion calls on the same crisis
Invocations == 1..NumInvocations
NumUnits == 2         \* deep-scan units of the modelled batch
Units == 1..NumUnits
NoRun == ""           \* no Verification Run in flight
IdleUnits ==
  /\ u_pc = [u \in Units |-> "IDLE"]
  /\ u_queries = [u \in Units |-> 0]
  /\ u_claims = [u \in Units |-> <<>>]
  /\ u_run = [u \in Units |-> NoRun]
  /\ u_started = [u \in Units |-> {}]
  /\ u_concluded = [u \in Units |-> 0]
IdleDisc ==
  /\ disc_pc = "IDLE"
  /\ is_first_run = TRUE
  /\ notifications = <<>>
  /\ new_threats = <<>>
IdleMerge ==
  /\ merge_pc = "IDLE"
  /\ feed_results = <<>>
  /\ social_hits = <<>>
  /\ all_items = <<>>
IdleInv ==
  /\ IdleUnits /\ IdleDisc /\ IdleMerge
  /\ inv_pc = [i \in Invocations |-> "IDLE"]
  /\ inv_loaded = [i \in Invocations |-> None]
  /\ inv_answer = [i \in Invocations |-> NotCalled]
  /\ inv_writes = <<>>
IdleCon ==
  /\ con_pc = "IDLE" /\ con_crisis_id = None /\ con_answer = NotCalled
  /\ IdleInv
IdleCyc ==
  /\ cyc_pc = "IDLE" /\ cycles = 0 /\ store_healthy = TRUE /\ seeds = {}
  /\ deep_start = 0 /\ cyc_op = NoOp

PendingSummary == "Initial assessment in progress. Sentinel AI is aggregating claims..."

CrisisRow(name, severity, created) ==
  [name |-> name, description |-> "Summary of what the claim says.",
   keywords |-> "flood, downtown", severity |-> severity,
   location |-> "Downtown", created_at |-> created,
   updated_at |-> created, verdict_status |-> "PENDING",
   verdict_summary |-> PendingSummary]

\* mutant: the conclusion is triggered only when the crisis is the target
\* the verdict was persisted to
after_graph_target_only(st) ==
  IF st.crisis_id # None /\ st.adhoc_analysis_id = None /\ st.timeline_item_id = None
    THEN "CONCLUDE" ELSE "DONE"

\* lines 260-265: "if crisis_id:" after app.ainvoke has returned
after_graph(st) == IF st.crisis_id # None THEN "CONCLUDE" ELSE "DONE"

\* the status log of the run's AdHocAnalysis after a step from old to new
StatusLog(log, old, new, id) ==
  IF id \in DOMAIN old /\ new[id].status # old[id].status
    THEN Append(log, new[id].status) ELSE log

\* the arguments of run_verification_pipeline and the initial graph state
InitRun ==
  /\ crises = (1 :> CrisisRow("Downtown Flood", 80, start_time - 60))
  /\ timeline_items =
       (1 :> [crisis_id |-> 1, claim_text |-> SeedClaim,
              summary |-> "Automated verification agents have been deployed.",
              status |-> "UNCONFIRMED"])
  /\ adhoc_analyses =
       (1 :> [status |-> "PENDING", verdict_status |-> "", verdict_summary |-> ""])
  /\ now = start_time
  /\ \E c \in {None, 1}, a \in {None, 1}, t \in {None, 1}, loc \in Locations :
       state = [claim_text |-> ClaimText, current_query |-> "", location |-> loc,
                crisis_id |-> c, adhoc_analysis_id |-> a, timeline_item_id |-> t,
                official_evidence |-> <<>>, media_evidence |-> <<>>,
                debunk_evidence |-> <<>>, retry_count |-> 0, status |-> "CALLED"]
  /\ pc = "CALLED"
  /\ pending = {}
  /\ gather_calls = [g \in Gatherers |-> 0]
  /\ trace = <<>>
  /\ hits_log = <<>>
  /\ gather_queries = [g \in Gatherers |-> <<>>]
  /\ gather_ret = [g \in Gatherers |-> NothingReturned]
  /\ conclude_calls = 0
  /\ adhoc_log = <<>>
  /\ oracle_out = [o \in RunOracles |-> NotCalled]
  /\ store_errors = 0
  /\ NoOracleCalls
  /\ IdleWork /\ IdleSel /\ IdleSched /\ IdleCon /\ IdleCyc

\* run_verification_pipeline up to app.ainvoke(inputs): START fans out
run_verification_pipeline ==
  /\ pc = "CALLED"
  /\ adhoc_analyses' =
       IF state.adhoc_analysis_id # None
         THEN update_adhoc_analysis(adhoc_analyses, state.adhoc_analysis_id,
                                    "PROCESSING", NoVerdict)
         ELSE adhoc_analyses
  /\ state' = [state EXCEPT
       !.current_query = state.claim_text \o " " \o
            (IF state.location # "Unknown" THEN state.location ELSE ""),
       !.status = "STARTING"]
  /\ pc' = "GATHER"
  /\ pending' = Gatherers
  /\ trace' = Append(trace, "GATHER")
  /\ UNCHANGED <<crises, timeline_items, now, gather_calls, hits_log>>
  /\ adhoc_log' = StatusLog(adhoc_log, adhoc_analyses, adhoc_analyses', state.adhoc_analysis_id)
  /\ UNCHANGED <<gather_queries, gather_ret, oracle_out, store_errors, oracle_calls>>
  /\ UNCHANGED conclude_calls
  /\ UNCHANGED <<workVars, selVars, schedVars, conVars, invVars, cycVars>>

GatherStep(g, st, out) ==
  /\ pc = "GATHER"
  /\ g \in pending
  /\ state' = st
  /\ gather_ret' = [gather_ret EXCEPT ![g] = out]
  /\ pending' = pending \ {g}
  /\ gather_calls' = [gather_calls EXCEPT ![g] = @ + 1]
  /\ gather_queries' = [gather_queries EXCEPT ![g] = Append(@, state.current_query)]
  /\ UNCHANGED <<pc, trace, hits_log, oracle_out, store_errors, oracle_calls>>
  /\ UNCHANGED <<conclude_calls, adhoc_log>>
  /\ UNCHANGED <<storeVars, workVars, selVars, schedVars, conVars, invVars, cycVars>>

OfficialStep ==
  \E out \in GatherOutcomes(OfficialItems) : GatherStep("official", node_official_checker(state, out), out)

MediaStep ==
  \E out \in GatherOutcomes(MediaItems) : GatherStep("media", node_media_cross_referencer(state, out), out)

DebunkerStep ==
  \E out \in GatherOutcomes(DebunkItems) : GatherStep("debunker", node_debunker(state, out), out)

\* the assessor runs once all three gatherers of the superstep have returned
AssessStep ==
  /\ pc = "GATHER"
  /\ pending = {}
  /\ state' = node_assessor(state)
  /\ hits_log' = Append(hits_log, total_hits(state))
  /\ trace' = Append(trace, "ASSESS")
  /\ pc' = IF router_logic(node_assessor(state)) = "refine"
             THEN "REFINE" ELSE "SYNTHESIZE"
  /\ UNCHANGED <<pending, gather_calls, gather_queries, gather_ret, oracle_out>>
  /\ UNCHANGED <<oracle_calls, conclude_calls, adhoc_log>>
  /\ UNCHANGED store_errors
  /\ UNCHANGED <<storeVars, workVars, selVars, schedVars, conVars, invVars, cycVars>>

RefineStep ==
  /\ pc = "REFINE"
  /\ \E out \in RefineOutcomes :
       /\ state' = node_query_refiner(state, out)
       /\ oracle_out' = [oracle_out EXCEPT !["refinement"] =
                           [kind |-> IF out.ok THEN "ok" ELSE "raise", text |-> out.text]]
  /\ pc' = "GATHER"
  /\ pending' = Gatherers
  /\ trace' = trace \o <<"REFINE", "GATHER">>
  /\ oracle_calls' = [oracle_calls EXCEPT !["refinement"] = @ + 1]
  /\ UNCHANGED <<gather_calls, hits_log, gather_queries, gather_ret, store_errors>>
  /\ UNCHANGED <<conclude_calls, adhoc_log>>
  /\ UNCHANGED <<storeVars, workVars, selVars, schedVars, conVars, invVars, cycVars>>

\* node_synthesizer, then END
SynthesizeStep ==
  /\ pc = "SYNTHESIZE"
  /\ \E out \in SynthOutcomes, store \in StoreOutcomes :
       LET r == synthesize_evidence(timeline_items, adhoc_analyses, crises,
                                    state.claim_text, state.crisis_id,
                                    state.adhoc_analysis_id,
                                    state.timeline_item_id, out, store)
       IN  /\ timeline_items' = r.items
           /\ adhoc_analyses' = r.adhoc
           /\ store_errors' = store_errors + r.errors
           /\ oracle_out' = [oracle_out EXCEPT !["synthesis"] = out]
  /\ trace' = Append(trace, "SYNTHESIZE")
  /\ pc' = after_graph(state)
  /\ oracle_calls' = [oracle_calls EXCEPT !["synthesis"] = @ + 1]
  /\ adhoc_log' = StatusLog(adhoc_log, adhoc_analyses, adhoc_analyses', state.adhoc_analysis_id)
  /\ UNCHANGED <<crises, now, state, pending, gather_calls, hits_log, gather_queries>>
  /\ UNCHANGED <<gather_ret, conclude_calls>>
  /\ UNCHANGED <<workVars, selVars, schedVars, conVars, invVars, cycVars>>

\* "Trigger Live Update if part of a Crisis"
ConcludeStep ==
  /\ pc = "CONCLUDE"
  /\ \E out \in ConclusionOutcomes :
       /\ crises' = synthesize_crisis_conclusion(crises, timeline_items,
                                                 state.crisis_id, out, now)
       /\ oracle_out' = [oracle_out EXCEPT !["conclusion"] =
                           IF conclusion_oracle_calls(crises, timeline_items,
                                                      state.crisis_id) = 0
                             THEN @
                             ELSE [kind |-> IF out.ok THEN "ok" ELSE "raise",
                                   verdict_status |-> out.verdict_status]]
  /\ pc' = "DONE"
  /\ oracle_calls' = [oracle_calls EXCEPT !["conclusion"] =
                        @ + conclusion_oracle_calls(crises, timeline_items, state.crisis_id)]
  /\ UNCHANGED <<timeline_items, adhoc_analyses, now>>
  /\ conclude_calls' = conclude_calls + 1
  /\ UNCHANGED <<state, pending, gather_calls, trace, hits_log, gather_queries>>
  /\ UNCHANGED <<gather_ret, adhoc_log>>
  /\ UNCHANGED store_errors
  /\ UNCHANGED <<workVars, selVars, schedVars, conVars, invVars, cycVars>>

NextRun ==
  \/ run_verification_pipeline
  \/ OfficialStep
  \/ MediaStep
  \/ DebunkerStep
  \/ AssessStep
  \/ RefineStep
  \/ SynthesizeStep
  \/ ConcludeStep

SpecRun == InitRun /\ [][NextRun]_vars

\* every node of the graph is an awaited coroutine: a run that can step does
FairSpecRun == SpecRun /\ WF_vars(NextRun)


(***************************************************************************)
(* Claims about the verification run                                       *)
(***************************************************************************)
ZeroPath == <<"GATHER", "ASSESS", "REFINE", "GATHER", "ASSESS", "SYNTHESIZE">>

Rounds == Cardinality({i \in DOMAIN trace : trace[i] = "GATHER"})

AllHitsZero == \A i \in DOMAIN hits_log : hits_log[i] = 0

Finished == pc \in {"CONCLUDE", "DONE"}

C2_RunTerminates ==
  /\ [](state.retry_count <= MAX_RETRIES /\ Rounds <= 2)
  /\ [](pc = "DONE" => trace[Len(trace)] = "SYNTHESIZE")
  /\ <>(pc = "DONE")

C2_Witness ==
  pc = "DONE" /\ Rounds = 2 /\ state.retry_count = MAX_RETRIES
    /\ state.current_query = ClaimText \o " Downtown"

\* C3: with official evidence ["Gov Report: No floods detected."] and empty
\* media and debunk lists, the first assessment counts 0 substantive items and
\* the run goes to REFINE.
C3_GovReportIsPlaceholder ==
  (/\ Len(hits_log) = 1
   /\ pc \in {"REFINE", "SYNTHESIZE"}
   /\ state.official_evidence = <<GovReport>>
   /\ state.media_evidence = <<>>
   /\ state.debunk_evidence = <<>>)
  => (hits_log[1] = 0 /\ pc = "REFINE")


\* the association target of the run
OnlyCrisisTarget ==
  /\ state.crisis_id # None
  /\ state.adhoc_analysis_id = None
  /\ state.timeline_item_id = None

SynthesisFailed == oracle_out["synthesis"].kind \in {"malformed", "raise"}

\* C13: when the synthesis Oracle fails or returns malformed output and the
\* run targets a crisis, a TimelineItem with the claim text and status
\* UNCONFIRMED exists after the run.
C13_FailedSynthesisPersistsUnconfirmed ==
  (Finished /\ OnlyCrisisTarget /\ SynthesisFailed /\ store_errors = 0)
    => \E i \in DOMAIN timeline_items :
         /\ timeline_items[i].claim_text = state.claim_text
         /\ timeline_items[i].status = "UNCONFIRMED"

\* C14: an AdHocAnalysis is FAILED only when a store operation failed.
C14_FailedOnlyOnStoreError ==
  \A a \in DOMAIN adhoc_analyses :
    adhoc_analyses[a].status = "FAILED" => store_errors > 0

SynthesizeTaken == pc = "SYNTHESIZE" /\ pc' # "SYNTHESIZE"

\* the verdict the synthesis Oracle's answer stands for
ResultOf(out) ==
  IF out.kind = "ok" THEN Verdict(out.status, OracleSummary)
  ELSE Verdict("UNCONFIRMED", SystemErrorSummary)

\* C15: SYNTHESIZE writes to one target only, chosen in the order
\* adhoc analysis, timeline item, crisis, none: targets of lower priority are
\* left as they were, and when the Oracle call returned and the store took
\* the write, the chosen target holds the verdict.
C15_PersistByPriority ==
  [][SynthesizeTaken =>
       LET a == state.adhoc_analysis_id
           t == state.timeline_item_id
           c == state.crisis_id
           out == oracle_out'["synthesis"]
           written == out.kind # "raise" /\ store_errors' = store_errors
           result == ResultOf(out)
       IN  /\ crises' = crises
           /\ a # None =>
                /\ timeline_items' = timeline_items
                /\ \A b \in DOMAIN adhoc_analyses \ {a} :
                     adhoc_analyses'[b] = adhoc_analyses[b]
                /\ written =>
                     adhoc_analyses'[a] =
                       [status |-> "COMPLETED", verdict_status |-> result.status,
                        verdict_summary |-> result.summary]
           /\ (a = None /\ t # None) =>
                /\ adhoc_analyses' = adhoc_analyses
                /\ DOMAIN timeline_items' = DOMAIN timeline_items
                /\ \A i \in DOMAIN timeline_items \ {t} :
                     timeline_items'[i] = timeline_items[i]
                /\ written =>
                     timeline_items'[t] =
                       [timeline_items[t] EXCEPT !.status = result.status,
                                                 !.summary = result.summary]
           /\ (a = None /\ t = None /\ c # None) =>
                /\ adhoc_analyses' = adhoc_analyses
                /\ \A i \in DOMAIN timeline_items :
                     i \in DOMAIN timeline_items' /\ timeline_items'[i] = timeline_items[i]
                /\ written =>
                     \E i \in DOMAIN timeline_items' \ DOMAIN timeline_items :
                       /\ DOMAIN timeline_items' = DOMAIN timeline_items \cup {i}
                       /\ timeline_items'[i] =
                            [crisis_id |-> c, claim_text |-> state.claim_text,
                             summary |-> result.summary, status |-> result.status]
           /\ (a = None /\ t = None /\ c = None) =>
                /\ adhoc_analyses' = adhoc_analyses
                /\ timeline_items' = timeline_items
    ]_vars

\* a run given all three targets wrote its verdict to the adhoc analysis and
\* left the timeline item and the crisis's items as they were
C15_Witness ==
  /\ Finished
  /\ state.adhoc_analysis_id = 1 /\ state.timeline_item_id = 1 /\ state.crisis_id = 1
  /\ oracle_out["synthesis"].kind = "ok"
  /\ adhoc_analyses[1].status = "COMPLETED"
  /\ adhoc_analyses[1].verdict_status = "VERIFIED"
  /\ DOMAIN timeline_items = {1}
  /\ timeline_items[1].status = "UNCONFIRMED"

AssessTaken == pc = "GATHER" /\ pc' # "GATHER"

RefineTaken == pc = "REFINE" /\ pc' # "REFINE"

\* the query of the first round: f"{claim_text} {location or ''}"
InitialQuery ==
  state.claim_text \o " " \o (IF state.location # "Unknown" THEN state.location ELSE "")

\* every gatherer's call of round 2, once made, used query q
SecondRoundUses(q) ==
  \A g \in Gatherers : Len(gather_queries[g]) >= 2 => gather_queries[g][2] = q

\* the query in the Oracle's response: response.text.strip().replace('"', '')
ReturnedQuery(out) == RemoveQuotes(Strip(out.text))

\* C19: a failed refinement leaves current_query as it was and a successful
\* one sets it to the returned query; both add exactly one to retry_count, and
\* the second round calls all three gatherers with the original query after a
\* failure and with the returned query after a success.
C19_RefineKeepsQueryOnFailure ==
  /\ [][RefineTaken =>
          /\ state'.retry_count = state.retry_count + 1
          /\ oracle_out'["refinement"].kind = "raise" =>
               state'.current_query = state.current_query
          /\ oracle_out'["refinement"].kind = "ok" =>
               state'.current_query = ReturnedQuery(oracle_out'["refinement"])
       ]_vars
  /\ [](oracle_out["refinement"].kind = "raise" =>
          /\ SecondRoundUses(InitialQuery)
          /\ Finished => \A g \in Gatherers : Len(gather_queries[g]) = 2)
  /\ [](oracle_out["refinement"].kind = "ok" =>
          SecondRoundUses(ReturnedQuery(oracle_out["refinement"])))

\* a run whose refinement failed finished its second round with the query of
\* the first
C19_Witness ==
  /\ pc = "DONE"
  /\ state.retry_count = 1
  /\ oracle_out["refinement"].kind = "raise"
  /\ state.location = "Downtown"
  /\ \A g \in Gatherers :
       gather_queries[g] = <<"Flood reported in Downtown Downtown",
                             "Flood reported in Downtown Downtown">>

EvidenceOf(g) ==
  IF g = "official" THEN state.official_evidence
  ELSE IF g = "media" THEN state.media_evidence
  ELSE state.debunk_evidence

\* what a gatherer handed back in its latest call: its list, or nothing when
\* it raised
Returned(g) == IF gather_ret[g].ok THEN gather_ret[g].items ELSE <<>>

\* C21: the evidence handed to SYNTHESIZE is exactly what the three
\* Gatherers returned in the final GATHER round; no item of an earlier round
\* is included, whether or not the refinement Oracle call succeeded and
\* whether or not a Gatherer failed in the final round.
C21_SynthesizeGetsFinalRound ==
  pc = "SYNTHESIZE" =>
    /\ state.official_evidence = Returned("official")
    /\ state.media_evidence = Returned("media")
    /\ state.debunk_evidence = Returned("debunker")

\* C21 witness: a second round after a failed refinement, in which the
\* official Gatherer raised and the media Gatherer returned an item
C21_Witness ==
  /\ pc = "SYNTHESIZE"
  /\ state.retry_count = 1
  /\ oracle_out["refinement"].kind = "raise"
  /\ ~gather_ret["official"].ok
  /\ state.official_evidence = <<>>
  /\ state.media_evidence = <<FloodArticle>>

\* the three Gatherers of the round have returned or raised
RoundComplete == pc = "GATHER" /\ pending = {}

\* C22: in a GATHER round a Gatherer that raises sets only its own category
\* to the empty list; the other two categories hold exactly what their
\* Gatherers returned, and the run proceeds to ASSESS.
C22_GathererFailureIsLocal ==
  /\ [](RoundComplete =>
          /\ \A g \in Gatherers : ~gather_ret[g].ok => EvidenceOf(g) = <<>>
          /\ \A g \in Gatherers : gather_ret[g].ok => EvidenceOf(g) = gather_ret[g].items)
  /\ [][(pc = "GATHER" /\ pending # {}) => pc' = "GATHER"]_vars
  /\ [][RoundComplete => trace' = Append(trace, "ASSESS")]_vars

\* C22 witness: a completed round in which only the media Gatherer raised
C22_Witness ==
  /\ RoundComplete
  /\ ~gather_ret["media"].ok
  /\ gather_ret["official"] = [ok |-> TRUE, items |-> <<GovReport>>]
  /\ gather_ret["debunker"] = [ok |-> TRUE, items |-> <<FloodArticle>>]

\* the number of Conclusion Synthesizer invocations the run owes
ConclusionsDue == IF state.crisis_id # None THEN 1 ELSE 0

IsPrefixOf(p, q) == Len(p) <= Len(q) /\ p = SubSeq(q, 1, Len(p))

\* C24: when a run with an AdHocAnalysis finishes and no store operation
\* failed, the status is COMPLETED or FAILED; within the run the status
\* moves to PROCESSING and then to exactly one terminal value, and COMPLETED
\* is never changed afterwards.
C24_AdhocStatusTerminal ==
  state.adhoc_analysis_id # None =>
    /\ \A i \in DOMAIN adhoc_log : adhoc_log[i] = "COMPLETED" => i = Len(adhoc_log)
    /\ store_errors = 0 =>
         /\ \/ IsPrefixOf(adhoc_log, <<"PROCESSING", "COMPLETED">>)
            \/ IsPrefixOf(adhoc_log, <<"PROCESSING", "FAILED">>)
         /\ pc = "DONE" =>
              /\ Len(adhoc_log) = 2
              /\ adhoc_analyses[state.adhoc_analysis_id].status \in {"COMPLETED", "FAILED"}
              /\ adhoc_analyses[state.adhoc_analysis_id].status = adhoc_log[2]

\* C24 witness: a finished run whose synthesis Oracle raised, no store
\* operation failed
C24_Witness ==
  /\ pc = "DONE"
  /\ state.adhoc_analysis_id # None
  /\ store_errors = 0
  /\ adhoc_log = <<"PROCESSING", "FAILED">>

\* C20: when a GATHER round starts after REFINE, the three evidence lists are
\* empty.
C20_EvidenceClearedAfterRefine ==
  (pc = "GATHER" /\ pending = Gatherers /\ oracle_out["refinement"].kind # "none")
    => /\ state.official_evidence = <<>>
       /\ state.media_evidence = <<>>
       /\ state.debunk_evidence = <<>>


(***************************************************************************)
(* One call of synthesize_crisis_conclusion (from a deep-scan unit or at   *)
(* the end of a verification run) on a store holding two crises            *)
(***************************************************************************)
MaxItems == 3         \* most TimelineItems of the crisis

InitConclude ==
  /\ crises = (1 :> CrisisRow("Downtown Flood", 80, start_time - 60)
               @@ 2 :> CrisisRow("Bridge Collapse", 95, start_time - 30))
  /\ \E n \in 0..MaxItems : \E st \in [1..n -> VerificationStatus] :
       timeline_items =
         [i \in 1..n |->
            [crisis_id |-> 1, claim_text |-> "Claim " \o ToString(i),
             summary |-> OracleSummary, status |-> st[i]]]
  /\ adhoc_analyses = <<>>
  /\ now = start_time
  /\ con_pc = "CALLED"
  /\ con_crisis_id \in {1, 2, 3}
  /\ con_answer = NotCalled
  /\ NoOracleCalls
  /\ IdleRun /\ IdleWork /\ IdleSel /\ IdleSched /\ IdleCyc /\ IdleInv

\* what the conclusion Oracle call does: raises, returns text that is not
\* JSON, returns a JSON object without "verdict_status", or returns a verdict
ConclusionAnswers ==
  {[kind |-> k, verdict_status |-> ""] : k \in {"raise", "not_json", "no_status"}}
    \cup {[kind |-> "verdict", verdict_status |-> v] : v \in MasterVerdicts}

DefaultVerdict == "DEVELOPING NARRATIVE"

\* lines 234-237: json.loads and data.get("verdict_status", "DEVELOPING NARRATIVE")
parse_conclusion(answer) ==
  IF answer.kind \in {"raise", "not_json"} THEN [ok |-> FALSE, verdict_status |-> ""]
  ELSE IF answer.kind = "no_status" THEN [ok |-> TRUE, verdict_status |-> DefaultVerdict]
  ELSE [ok |-> TRUE, verdict_status |-> answer.verdict_status]

ConclusionStep ==
  /\ con_pc = "CALLED"
  /\ \E answer \in ConclusionAnswers :
       /\ crises' = synthesize_crisis_conclusion(crises, timeline_items, con_crisis_id,
                                                 parse_conclusion(answer), now)
       /\ con_answer' =
            IF conclusion_oracle_calls(crises, timeline_items, con_crisis_id) = 0
              THEN NotCalled ELSE answer
  /\ oracle_calls' = [oracle_calls EXCEPT !["conclusion"] =
                        @ + conclusion_oracle_calls(crises, timeline_items, con_crisis_id)]
  /\ con_pc' = "DONE"
  /\ UNCHANGED <<timeline_items, adhoc_analyses, now, con_crisis_id>>
  /\ UNCHANGED <<runVars, workVars, selVars, schedVars, cycVars, invVars>>

NextConclude == ConclusionStep

SpecConclude == InitConclude /\ [][NextConclude]_vars

ItemsWithStatus(crisis_id, status) ==
  {i \in get_timeline_items(timeline_items, crisis_id) : timeline_items[i].status = status}

\* the crisis the call is about has 2 VERIFIED and 1 DEBUNKED TimelineItems
TwoVerifiedOneDebunked ==
  /\ con_crisis_id \in DOMAIN crises
  /\ Cardinality(get_timeline_items(timeline_items, con_crisis_id)) = 3
  /\ Cardinality(ItemsWithStatus(con_crisis_id, "VERIFIED")) = 2
  /\ Cardinality(ItemsWithStatus(con_crisis_id, "DEBUNKED")) = 1

ConclusionTaken == con_pc = "CALLED" /\ con_pc' = "DONE"

\* C11 as stated: on a crisis with 2 VERIFIED and 1 DEBUNKED items the
\* Conclusion Synthesizer makes exactly one Oracle call and changes only
\* verdict_status and verdict_summary; updated_at and every other field of
\* the crisis stay as they were.
C11_OnlyVerdictFieldsChange ==
  [][(ConclusionTaken /\ TwoVerifiedOneDebunked) =>
       /\ oracle_calls'["conclusion"] = oracle_calls["conclusion"] + 1
       /\ DOMAIN crises' = DOMAIN crises
       /\ crises'[con_crisis_id] =
            [crises[con_crisis_id] EXCEPT
               !.verdict_status = crises'[con_crisis_id].verdict_status,
               !.verdict_summary = crises'[con_crisis_id].verdict_summary]
    ]_vars

\* C11 amended: the same, except that updated_at is also written (set to the
\* time of the update); no other crisis and no TimelineItem changes.
C11_OnlyVerdictAndUpdatedAtChange ==
  [][(ConclusionTaken /\ TwoVerifiedOneDebunked) =>
       /\ oracle_calls'["conclusion"] = oracle_calls["conclusion"] + 1
       /\ DOMAIN crises' = DOMAIN crises
       /\ crises'[con_crisis_id] =
            [crises[con_crisis_id] EXCEPT
               !.verdict_status = crises'[con_crisis_id].verdict_status,
               !.verdict_summary = crises'[con_crisis_id].verdict_summary,
               !.updated_at = crises'[con_crisis_id].updated_at]
       /\ crises'[con_crisis_id].updated_at \in {crises[con_crisis_id].updated_at, now}
       /\ \A c \in DOMAIN crises \ {con_crisis_id} : crises'[c] = crises[c]
       /\ timeline_items' = timeline_items
    ]_vars

\* the conclusion of a crisis with 2 VERIFIED and 1 DEBUNKED items was
\* written: one Oracle call, a new verdict, updated_at moved
C11_Witness ==
  /\ con_pc = "DONE"
  /\ TwoVerifiedOneDebunked
  /\ oracle_calls["conclusion"] = 1
  /\ crises[con_crisis_id].verdict_status = "LETHAL MISINFORMATION"
  /\ crises[con_crisis_id].verdict_summary = ConclusionSummary
  /\ crises[con_crisis_id].updated_at = now
  /\ crises[con_crisis_id].created_at < now
  /\ crises[con_crisis_id].severity = 80


\* the call is one of the cases in which nothing may be written: the crisis
\* id names no row, the crisis has no TimelineItems, the Oracle call raised,
\* or the Oracle's answer is not the JSON object that was asked for
NoConclusionCase ==
  \/ con_crisis_id \notin DOMAIN crises
  \/ get_timeline_items(timeline_items, con_crisis_id) = {}
  \/ con_answer'.kind \in {"raise", "not_json", "no_status"}

\* C25: the Conclusion Synthesizer returns normally and leaves the store as
\* it was (in particular the previous verdict_status and verdict_summary)
\* when the crisis id does not exist, when the crisis has no TimelineItems
\* (then without an Oracle call), or when the conclusion Oracle call fails or
\* returns malformed output.
C25_NoConclusionKeepsStore ==
  [][(ConclusionTaken /\ NoConclusionCase) =>
       /\ crises' = crises
       /\ timeline_items' = timeline_items
       /\ (con_answer' = NotCalled =>
             oracle_calls'["conclusion"] = oracle_calls["conclusion"])
    ]_vars

\* the Oracle answered with a JSON object that has no "verdict_status" and
\* the crisis now carries the default verdict
C25_DefaultVerdictWritten ==
  /\ con_pc = "DONE"
  /\ con_answer.kind = "no_status"
  /\ con_crisis_id \in DOMAIN crises
  /\ crises[con_crisis_id].verdict_status = DefaultVerdict
  /\ crises[con_crisis_id].updated_at = now

(***************************************************************************)
(* Interleaved calls of synthesize_crisis_conclusion on the same crisis    *)
(* (detached verification runs and deep-scan units), each with a session   *)
(* of its own.  A call reads the crisis and its items, awaits the Oracle,  *)
(* and then update_crisis_verdict selects the row again, assigns the three *)
(* attributes and commits.  The second select returns the Crisis object    *)
(* the session already holds (its attributes are not reloaded), and the    *)
(* commit writes the columns whose assigned value differs from the value   *)
(* that object was loaded with.                                            *)
(***************************************************************************)
TheCrisis == 1        \* the crisis id every invocation is called with

\* verdict_status / verdict_summary of the crisis before the calls: never
\* concluded (as create_crisis left it), or the result of an earlier conclusion
PriorVerdicts ==
  {[verdict_status |-> "PENDING", verdict_summary |-> PendingSummary]}
    \cup {[verdict_status |-> v, verdict_summary |-> ConclusionSummary] :
            v \in MasterVerdicts}

\* the summary an invocation's Oracle call writes
SummaryOf(i) == "Strategic summary " \o ToString(i)

\* what the Oracle call of invocation i returns
InvAnswers(i) ==
  {[kind |-> "raise", verdict_status |-> "", verdict_summary |-> ""]}
    \cup {[kind |-> "verdict", verdict_status |-> v, verdict_summary |-> SummaryOf(i)] :
            v \in MasterVerdicts}

InitInterleave ==
  /\ \E prior \in PriorVerdicts :
       crises = (TheCrisis :> [CrisisRow("Downtown Flood", 80, start_time - 60)
                                 EXCEPT !.verdict_status = prior.verdict_status,
                                        !.verdict_summary = prior.verdict_summary]
                 @@ 2 :> CrisisRow("Bridge Collapse", 95, start_time - 30))
  /\ \E n \in 0..1 :
       timeline_items =
         [i \in 1..n |->
            [crisis_id |-> TheCrisis, claim_text |-> "Claim " \o ToString(i),
             summary |-> OracleSummary, status |-> "VERIFIED"]]
  /\ adhoc_analyses = <<>>
  /\ now = start_time
  /\ inv_pc = [i \in Invocations |-> "FETCH"]
  /\ inv_loaded = [i \in Invocations |-> None]
  /\ inv_answer = [i \in Invocations |-> NotCalled]
  /\ inv_writes = <<>>
  /\ IdleUnits
  /\ con_pc = "IDLE" /\ con_crisis_id = None /\ con_answer = NotCalled
  /\ NoOracleCalls
  /\ IdleRun /\ IdleWork /\ IdleSel /\ IdleSched /\ IdleCyc /\ IdleDisc /\ IdleMerge

\* the Crisis object a session gets from its first select of the row
loaded_crisis(tbl, crisis_id) ==
  IF get_crisis(tbl, crisis_id) = None THEN None ELSE tbl[crisis_id]

\* lines 204-208: get_crisis, get_timeline_items and the early return
InvFetch(i) ==
  /\ inv_pc[i] = "FETCH"
  /\ inv_loaded' = [inv_loaded EXCEPT ![i] = loaded_crisis(crises, TheCrisis)]
  /\ inv_pc' = [inv_pc EXCEPT ![i] =
                  IF conclusion_oracle_calls(crises, timeline_items, TheCrisis) = 0
                    THEN "DONE" ELSE "ORACLE"]
  /\ UNCHANGED <<storeVars, inv_answer, inv_writes, oracle_calls>>
  /\ UNCHANGED <<con_pc, con_crisis_id, con_answer, unitVars, discVars, mergeVars>>
  /\ UNCHANGED <<runVars, workVars, selVars, schedVars, cycVars>>

\* lines 229-237: the awaited Oracle call, during which time passes; a
\* failure is caught at 243 and ends the call
InvOracle(i) ==
  /\ inv_pc[i] = "ORACLE"
  /\ \E answer \in InvAnswers(i) :
       /\ inv_answer' = [inv_answer EXCEPT ![i] = answer]
       /\ inv_pc' = [inv_pc EXCEPT ![i] =
                       IF answer.kind = "verdict" THEN "WRITE" ELSE "DONE"]
  /\ oracle_calls' = [oracle_calls EXCEPT !["conclusion"] = @ + 1]
  /\ now' = now + 1
  /\ UNCHANGED <<crises, timeline_items, adhoc_analyses, inv_loaded, inv_writes>>
  /\ UNCHANGED <<con_pc, con_crisis_id, con_answer, unitVars, discVars, mergeVars>>
  /\ UNCHANGED <<runVars, workVars, selVars, schedVars, cycVars>>

\* the row after the UPDATE that the commit of update_crisis_verdict emits
\* for an object loaded as `loaded`: a column is set when the assigned
\* value differs from the loaded one
flush_verdict(row, loaded, verdict_status, verdict_summary, t) ==
  [row EXCEPT
     !.verdict_status = IF verdict_status # loaded.verdict_status
                          THEN verdict_status ELSE @,
     !.verdict_summary = IF verdict_summary # loaded.verdict_summary
                           THEN verdict_summary ELSE @,
     !.updated_at = IF t # loaded.updated_at THEN t ELSE @]

\* line 241 and crud.py 115-124
InvWrite(i) ==
  /\ inv_pc[i] = "WRITE"
  /\ crises' =
       IF TheCrisis \in DOMAIN crises
         THEN [crises EXCEPT ![TheCrisis] =
                 flush_verdict(@, inv_loaded[i], inv_answer[i].verdict_status,
                               inv_answer[i].verdict_summary, now)]
         ELSE crises
  /\ inv_loaded' = [inv_loaded EXCEPT ![i] = loaded_crisis(crises', TheCrisis)]
  /\ inv_writes' = Append(inv_writes, i)
  /\ inv_pc' = [inv_pc EXCEPT ![i] = "DONE"]
  /\ UNCHANGED <<timeline_items, adhoc_analyses, now, inv_answer, oracle_calls>>
  /\ UNCHANGED <<con_pc, con_crisis_id, con_answer, unitVars, discVars, mergeVars>>
  /\ UNCHANGED <<runVars, workVars, selVars, schedVars, cycVars>>

NextInterleave == \E i \in Invocations : InvFetch(i) \/ InvOracle(i) \/ InvWrite(i)

SpecInterleave == InitInterleave /\ [][NextInterleave]_vars

AllInvocationsDone == \A i \in Invocations : inv_pc[i] = "DONE"
LastWriter == inv_writes[Len(inv_writes)]

\* C26: when conclusion calls for the same crisis interleave, the crisis ends
\* with the verdict_status and verdict_summary of the Oracle result of the
\* invocation that wrote last; no other field of the crisis and no other row
\* changes; every invocation that reached the Oracle and got a verdict writes.
C26_LastWriterWins ==
  /\ []((AllInvocationsDone /\ inv_writes # <<>>) =>
          /\ crises[TheCrisis].verdict_status = inv_answer[LastWriter].verdict_status
          /\ crises[TheCrisis].verdict_summary = inv_answer[LastWriter].verdict_summary)
  /\ [][/\ DOMAIN crises' = DOMAIN crises
        /\ \A c \in DOMAIN crises \ {TheCrisis} : crises'[c] = crises[c]
        /\ crises'[TheCrisis] =
             [crises[TheCrisis] EXCEPT
                !.verdict_status = crises'[TheCrisis].verdict_status,
                !.verdict_summary = crises'[TheCrisis].verdict_summary]
        /\ timeline_items' = timeline_items]_vars

\* two invocations wrote, and the crisis carries the verdict_status of the
\* first writer next to the verdict_summary of the last one
C26_MixedVerdict ==
  /\ AllInvocationsDone
  /\ Len(inv_writes) = 2
  /\ crises[TheCrisis].verdict_status = inv_answer[inv_writes[1]].verdict_status
  /\ crises[TheCrisis].verdict_status # inv_answer[inv_writes[2]].verdict_status
  /\ crises[TheCrisis].verdict_summary = inv_answer[inv_writes[2]].verdict_summary

(***************************************************************************)
(* Concurrent callers of create_timeline_item (detached verification runs, *)
(* deep-scan units, Discovery's seeding), each on its own session: the     *)
(* SELECT of line 163 and the commit of line 169 are separate awaits.      *)
(***************************************************************************)
NumWorkers == 2
Workers == 1..NumWorkers

StoreClaims == {ClaimText, SeedClaim}

\* the other arguments of a call
Payloads ==
  {[crisis_id |-> 1, status |-> "UNCONFIRMED",
    summary |-> "Automated verification agents have been deployed."],
   [crisis_id |-> 2, status |-> "VERIFIED", summary |-> OracleSummary]}

CreateArgs ==
  {[crisis_id |-> p.crisis_id, claim_text |-> c, summary |-> p.summary,
    status |-> p.status] : c \in StoreClaims, p \in Payloads}

NoArgs == [crisis_id |-> None, claim_text |-> "", summary |-> "", status |-> ""]
NoRet == [id |-> None, raised |-> FALSE]

InitStore ==
  /\ \E ids \in {{1}, {1, 2}} :
       crises = [i \in ids |-> CrisisRow("Crisis", 80, start_time - 60)]
  /\ timeline_items = <<>>
  /\ adhoc_analyses = <<>>
  /\ now = start_time
  /\ w_pc = [w \in Workers |-> "idle"]
  /\ w_args = [w \in Workers |-> NoArgs]
  /\ w_ret = [w \in Workers |-> NoRet]
  /\ NoOracleCalls
  /\ IdleRun /\ IdleSel /\ IdleSched /\ IdleCon /\ IdleCyc

\* create_timeline_item is called; line 163 runs, and line 164 returns the
\* existing row when there is one
CallCreate(w) ==
  /\ w_pc[w] = "idle"
  /\ \E a \in CreateArgs :
       /\ w_args' = [w_args EXCEPT ![w] = a]
       /\ IF get_timeline_item_by_claim_text(timeline_items, a.claim_text) # None
            THEN LET r == create_timeline_item(timeline_items, crises, a.crisis_id,
                                               a.claim_text, a.summary, a.status)
                 IN  /\ timeline_items' = r.tbl
                     /\ w_ret' = [w_ret EXCEPT ![w] = [id |-> r.ret, raised |-> r.raised]]
                     /\ w_pc' = [w_pc EXCEPT ![w] = "returned"]
            ELSE /\ w_pc' = [w_pc EXCEPT ![w] = "checked"]
                 /\ w_ret' = [w_ret EXCEPT ![w] = NoRet]
                 /\ UNCHANGED timeline_items
  /\ UNCHANGED <<crises, adhoc_analyses, now, oracle_calls, runVars, selVars, schedVars, conVars, invVars, cycVars>>

\* lines 165-171: the insert is committed, or the commit raises
CommitCreate(w) ==
  /\ w_pc[w] = "checked"
  /\ LET r == create_commit(timeline_items, crises, w_args[w])
     IN  /\ timeline_items' = r.tbl
         /\ w_ret' = [w_ret EXCEPT ![w] = [id |-> r.ret, raised |-> r.raised]]
  /\ w_pc' = [w_pc EXCEPT ![w] = "returned"]
  /\ UNCHANGED <<w_args, crises, adhoc_analyses, now>>
  /\ UNCHANGED <<oracle_calls, runVars, selVars, schedVars, conVars, invVars, cycVars>>

\* the caller goes on; it may call again
ReturnCreate(w) ==
  /\ w_pc[w] = "returned"
  /\ w_pc' = [w_pc EXCEPT ![w] = "idle"]
  /\ UNCHANGED <<w_args, w_ret, oracle_calls, storeVars, runVars, selVars, schedVars, conVars, invVars, cycVars>>

NextStore ==
  \/ \E w \in Workers : CallCreate(w)
  \/ \E w \in Workers : CommitCreate(w)
  \/ \E w \in Workers : ReturnCreate(w)

SpecStore == InitStore /\ [][NextStore]_vars

RowsWithClaim(tbl, c) == {i \in DOMAIN tbl : tbl[i].claim_text = c}

\* C4: a create_timeline_item call whose claim_text already has a row returns
\* that row's id, inserts nothing and leaves every row as it was; after any
\* call there is at most one row per claim_text.
C4_CreateExistingReturnsRow ==
  [][/\ \A w \in Workers :
          (/\ w_pc[w] = "idle"
           /\ w_pc'[w] # "idle"
           /\ RowsWithClaim(timeline_items, w_args'[w].claim_text) # {})
          => /\ w_pc'[w] = "returned"
             /\ timeline_items' = timeline_items
             /\ ~w_ret'[w].raised
             /\ RowsWithClaim(timeline_items, w_args'[w].claim_text) = {w_ret'[w].id}
      /\ \A c \in StoreClaims : Cardinality(RowsWithClaim(timeline_items', c)) <= 1
    ]_vars

\* a second creation with other values has returned the first row, unchanged
C4_Witness ==
  \E w \in Workers :
    /\ w_pc[w] = "returned"
    /\ w_ret[w].id \in DOMAIN timeline_items
    /\ timeline_items[w_ret[w].id].claim_text = w_args[w].claim_text
    /\ timeline_items[w_ret[w].id].crisis_id # w_args[w].crisis_id
    /\ timeline_items[w_ret[w].id].status # w_args[w].status

\* C5: no two TimelineItem rows have the same claim_text, also when callers
\* interleave their check-for-existing and insert steps.
C5_ClaimTextUnique ==
  \A i, j \in DOMAIN timeline_items :
    timeline_items[i].claim_text = timeline_items[j].claim_text => i = j

\* two callers passed the check for the same claim_text; one inserted, the
\* other's commit was refused
C5_Witness ==
  \E w1, w2 \in Workers :
    /\ w1 # w2
    /\ w_pc[w1] = "returned" /\ w_pc[w2] = "returned"
    /\ w_args[w1].claim_text = w_args[w2].claim_text
    /\ w_args[w2].crisis_id \in DOMAIN crises
    /\ w_ret[w1].id # None
    /\ w_ret[w2].raised


(***************************************************************************)
(* Selection phase: scanner_service.py perform_agentic_selection           *)
(***************************************************************************)
K == 10               \* keep = all_crises[:10]
SelectionLimit == 100 \* crud.get_crises(db, limit=100)
MaxCrises == 11       \* most Crisis rows present when Selection starts

\* ORDER BY severity DESC, created_at DESC
OrderedBefore(tbl, i, j) ==
  \/ tbl[i].severity > tbl[j].severity
  \/ tbl[i].severity = tbl[j].severity /\ tbl[i].created_at >= tbl[j].created_at

RECURSIVE OrderRows(_, _)
OrderRows(tbl, ids) ==
  IF ids = {} THEN <<>>
  ELSE LET first == CHOOSE i \in ids : \A j \in ids : OrderedBefore(tbl, i, j)
       IN  <<first>> \o OrderRows(tbl, ids \ {first})

\* the ids of the rows get_crises returns, in order
get_crises(tbl, limit) == Prefix(OrderRows(tbl, DOMAIN tbl), limit)

\* list.sort(key=lambda x: x.severity, reverse=True): a stable sort, so rows
\* of equal severity keep their order
RECURSIVE InsertDesc(_, _, _)
InsertDesc(tbl, sorted, x) ==
  IF sorted = <<>> THEN <<x>>
  ELSE IF tbl[Head(sorted)].severity >= tbl[x].severity
    THEN <<Head(sorted)>> \o InsertDesc(tbl, Tail(sorted), x)
    ELSE <<x>> \o sorted

RECURSIVE SortBySeverityDescFrom(_, _, _)
SortBySeverityDescFrom(tbl, sorted, rest) ==
  IF rest = <<>> THEN sorted
  ELSE SortBySeverityDescFrom(tbl, InsertDesc(tbl, sorted, Head(rest)), Tail(rest))

RECURSIVE Reverse(_)
Reverse(q) == IF q = <<>> THEN <<>> ELSE Reverse(Tail(q)) \o <<Head(q)>>

\* mutant: an ascending sort that is then reversed, which reverses the ties
SortBySeverityDesc_reversed_ties(tbl, list) ==
  SortBySeverityDescFrom(tbl, <<>>, Reverse(list))

SortBySeverityDesc(tbl, list) == SortBySeverityDescFrom(tbl, <<>>, list)

\* _fallback_pruning: the ids it deletes
fallback_pruning(tbl) ==
  LET all_crises == SortBySeverityDesc(tbl, get_crises(tbl, SelectionLimit))
      keep_ids == SeqRange(Prefix(all_crises, K))
  IN  SeqRange(all_crises) \ keep_ids

\* the selection Oracle: a JSON object with selected_ids, or a failure
\* (exception or text that is not JSON); Unknown is an id of no candidate
SelectionOutcomes(n) ==
  {[kind |-> "raise", ids |-> {}]}
    \cup {[kind |-> "ok", ids |-> a..b] : a \in 1..(n + 1), b \in 0..(n + 1)}

\* perform_agentic_selection: the ids it deletes
perform_agentic_selection(tbl, out) ==
  LET all_crises == get_crises(tbl, SelectionLimit)
  IN  IF all_crises = <<>> THEN {}
      ELSE IF out.kind = "raise" \/ out.ids = {} THEN fallback_pruning(tbl)
      ELSE {c \in SeqRange(all_crises) : c \notin out.ids}

\* await db.delete(c) ... await db.commit(); timeline_items.crisis_id is
\* declared ON DELETE CASCADE
DeleteCrises(tbl, del) == [i \in DOMAIN tbl \ del |-> tbl[i]]
\* mutant: the foreign key has no ON DELETE CASCADE
CascadeItems_keeps_items(items, del) == items

CascadeItems(items, del) ==
  [i \in {j \in DOMAIN items : items[j].crisis_id \notin del} |-> items[i]]

InitSelect ==
  /\ \E n \in 0..MaxCrises :
       /\ \E a \in 1..(n + 1), b \in 0..n :
            crises = [i \in 1..n |->
                        CrisisRow("Crisis", IF a <= i /\ i <= b THEN 95 ELSE 60,
                                  start_time - 100 + i)]
       /\ timeline_items =
            [i \in 1..Min(n, 2) |->
               [crisis_id |-> i,
                claim_text |-> IF i = 1 THEN SeedClaim ELSE ClaimText,
                summary |-> "Automated verification agents have been deployed.",
                status |-> "UNCONFIRMED"]]
  /\ adhoc_analyses = <<>>
  /\ now = start_time
  /\ sel_pc = "START"
  /\ sel_oracle = [kind |-> "none", ids |-> {}]
  /\ sel_fetched = <<>>
  /\ NoOracleCalls
  /\ IdleRun /\ IdleWork /\ IdleSched /\ IdleCon /\ IdleCyc

SelectionStep ==
  /\ sel_pc = "START"
  /\ LET all_crises == get_crises(crises, SelectionLimit)
     IN  /\ sel_fetched' = all_crises
         /\ \E out \in SelectionOutcomes(Len(all_crises)) :
              LET del == perform_agentic_selection(crises, out)
              IN  /\ sel_oracle' = IF all_crises = <<>> THEN sel_oracle ELSE out
                  /\ crises' = DeleteCrises(crises, del)
                  /\ timeline_items' = CascadeItems(timeline_items, del)
  /\ sel_pc' = "DONE"
  /\ oracle_calls' = [oracle_calls EXCEPT !["selection"] =
                        IF get_crises(crises, SelectionLimit) = <<>> THEN @ ELSE @ + 1]
  /\ UNCHANGED <<adhoc_analyses, now, runVars, workVars, schedVars, conVars, invVars, cycVars>>

NextSelect == SelectionStep

SpecSelect == InitSelect /\ [][NextSelect]_vars

\* C6: after Selection there are at most K Crisis rows, whatever the Oracle
\* returned.
C6_AtMostKAfterSelection ==
  sel_pc = "DONE" => Cardinality(DOMAIN crises) <= K

FallbackTaken ==
  /\ sel_pc = "START" /\ sel_pc' = "DONE"
  /\ sel_fetched' # <<>>
  /\ sel_oracle'.kind = "raise" \/ sel_oracle'.ids = {}

PosIn(list, x) == CHOOSE i \in 1..Len(list) : list[i] = x

\* C7: fallback pruning keeps exactly the min(K, n) fetched crises of highest
\* severity, ties going to the one fetched earlier, deletes every other
\* fetched crisis and changes no kept row.
C7_FallbackKeepsTopK ==
  [][FallbackTaken =>
       LET fetched == SeqRange(sel_fetched')
           kept == DOMAIN crises'
       IN  /\ fetched = DOMAIN crises
           /\ kept \subseteq fetched
           /\ Cardinality(kept) = Min(K, Cardinality(fetched))
           /\ \A a \in kept : crises'[a] = crises[a]
           /\ \A a \in kept, b \in fetched \ kept :
                \/ crises[a].severity > crises[b].severity
                \/ /\ crises[a].severity = crises[b].severity
                   /\ PosIn(sel_fetched', a) < PosIn(sel_fetched', b)
    ]_vars

\* the fallback ran on more than K crises with a severity tie across the cut
C7_Witness ==
  /\ sel_pc = "DONE"
  /\ sel_oracle.kind = "raise"
  /\ Len(sel_fetched) > K
  /\ Cardinality(DOMAIN crises) = K
  /\ \E a \in DOMAIN crises, i \in 1..Len(sel_fetched) :
       /\ sel_fetched[i] \notin DOMAIN crises
       /\ i = K + 1
       /\ a = sel_fetched[K]
       /\ crises[a].severity = 60

SelectionTaken == sel_pc = "START" /\ sel_pc' = "DONE"

\* C27: when Selection starts with at most K candidate crises it does not
\* consult the Oracle and deletes nothing: the Crisis set after Selection
\* equals the set before it.
C27_NoSelectionWithinK ==
  [][(SelectionTaken /\ Cardinality(DOMAIN crises) <= K) =>
       /\ oracle_calls'["selection"] = oracle_calls["selection"]
       /\ crises' = crises
    ]_vars

\* Selection ran on at most K candidates, consulted the Oracle and deleted
\* a crisis the Oracle did not list
C27_DeletedWithinK ==
  /\ sel_pc = "DONE"
  /\ Len(sel_fetched) \in 2..K
  /\ oracle_calls["selection"] = 1
  /\ sel_oracle.kind = "ok"
  /\ DOMAIN crises = SeqRange(sel_fetched) \cap sel_oracle.ids
  /\ DOMAIN crises # SeqRange(sel_fetched)
  /\ DOMAIN crises # {}

\* C28: if a Crisis exists when Selection starts, one exists when it ends,
\* whatever ids the Oracle returned (also ids of no candidate); Selection
\* creates no Crisis, so the survivors are among the candidates.
C28_SelectionKeepsOne ==
  [][(SelectionTaken /\ DOMAIN crises # {}) =>
       /\ DOMAIN crises' # {}
       /\ DOMAIN crises' \subseteq DOMAIN crises
    ]_vars

\* the Oracle listed only an id of no candidate and every crisis was deleted
C28_AllDeleted ==
  /\ sel_pc = "DONE"
  /\ sel_fetched # <<>>
  /\ sel_oracle.kind = "ok"
  /\ sel_oracle.ids # {}
  /\ sel_oracle.ids \cap SeqRange(sel_fetched) = {}
  /\ DOMAIN crises = {}
  /\ DOMAIN timeline_items = {}


(***************************************************************************)
(* Deep-gathering scheduler: scanner_service.py run_deep_gathering_phase   *)
(***************************************************************************)
MAX_CONCURRENT_SCANS == 5
HIGH_RISK_SCAN_INTERVAL == 120
HighRiskSeverity == 90    \* c.severity >= 90
ScanLimit == 20           \* crud.get_crises(db, limit=20)

MaxHigh == 6              \* most high-risk crises in the active set
MaxNormal == 7            \* most normal-risk crises in the active set
MaxDuration == 190        \* duration_seconds of the modelled phase

\* seconds from one batch build to the next: asyncio.gather(*tasks), then
\* asyncio.sleep(2)
BatchSeconds == {30, 60, 61}

\* last_scan_times.get(c.id, 0)
LastScan(last, c) == IF c \in DOMAIN last THEN last[c] ELSE 0

\* mutant: the cooldown compared with >= instead of >
CooldownOver_ge(last, c, t) == (t - LastScan(last, c)) >= HIGH_RISK_SCAN_INTERVAL

\* (now - last_scan_times.get(c.id, 0)) > HIGH_RISK_SCAN_INTERVAL
CooldownOver(last, c, t) == (t - LastScan(last, c)) > HIGH_RISK_SCAN_INTERVAL

high_risk(tbl, all_crises) ==
  SelectSeqOf(all_crises, {c \in SeqRange(all_crises) : tbl[c].severity >= HighRiskSeverity})

normal_risk(tbl, all_crises) ==
  SelectSeqOf(all_crises, {c \in SeqRange(all_crises) : tbl[c].severity < HighRiskSeverity})

\* for c in high_risk: if cooldown over: batch.append(c)
HighBatch(high, last, t) ==
  SelectSeqOf(high, {c \in SeqRange(high) : CooldownOver(last, c, t)})

\* mutant: the fill appends without looking whether the crisis is present
RECURSIVE FillNormal_no_membership_test(_, _, _, _)
FillNormal_no_membership_test(b, normal, ptr, slots) ==
  IF slots = 0 THEN b
  ELSE FillNormal_no_membership_test(Append(b, normal[(ptr % Len(normal)) + 1]),
                                     normal, ptr + 1, slots - 1)

\* for _ in range(slots): c = normal_risk[ptr % len]; append unless present
RECURSIVE FillNormal(_, _, _, _)
FillNormal(b, normal, ptr, slots) ==
  IF slots = 0 THEN b
  ELSE LET c == normal[(ptr % Len(normal)) + 1]
       IN  FillNormal(IF c \in SeqRange(b) THEN b ELSE Append(b, c),
                      normal, ptr + 1, slots - 1)

\* mutant: the round-robin pointer is not carried over to the next iteration
build_batch_ptr_lost(tbl, all_crises, last, ptr, t) ==
  LET high == high_risk(tbl, all_crises)
      normal == normal_risk(tbl, all_crises)
      b == HighBatch(high, last, t)
      slots == MAX_CONCURRENT_SCANS - Len(b)
  IN  IF slots > 0 /\ normal # <<>>
        THEN [batch |-> FillNormal(b, normal, ptr, slots), ptr |-> ptr]
        ELSE [batch |-> b, ptr |-> ptr]

\* mutant: the pointer moves on by one per iteration, whatever the slots
build_batch_ptr_plus_one(tbl, all_crises, last, ptr, t) ==
  LET high == high_risk(tbl, all_crises)
      normal == normal_risk(tbl, all_crises)
      b == HighBatch(high, last, t)
      slots == MAX_CONCURRENT_SCANS - Len(b)
  IN  IF slots > 0 /\ normal # <<>>
        THEN [batch |-> FillNormal(b, normal, ptr, slots), ptr |-> ptr + 1]
        ELSE [batch |-> b, ptr |-> ptr]

\* lines 342-357: the batch of one iteration and the pointer after it
build_batch(tbl, all_crises, last, ptr, t) ==
  LET high == high_risk(tbl, all_crises)
      normal == normal_risk(tbl, all_crises)
      b == HighBatch(high, last, t)
      slots == MAX_CONCURRENT_SCANS - Len(b)
  IN  IF slots > 0 /\ normal # <<>>
        THEN [batch |-> FillNormal(b, normal, ptr, slots), ptr |-> ptr + slots]
        ELSE [batch |-> b, ptr |-> ptr]

\* for c in batch: last_scan_times[c.id] = now
RecordScans(last, b, t) ==
  [c \in DOMAIN last \cup SeqRange(b) |-> IF c \in SeqRange(b) THEN t ELSE last[c]]

InitSched ==
  /\ \E nh \in 0..MaxHigh, nn \in 0..MaxNormal :
       crises = [i \in 1..(nh + nn) |->
                   CrisisRow("Crisis",
                             IF i <= nh THEN HighRiskSeverity ELSE HighRiskSeverity - 1,
                             start_time - 100 + i)]
  /\ timeline_items = <<>>
  /\ adhoc_analyses = <<>>
  /\ now = start_time
  /\ sched_pc = "LOOP"
  /\ normal_queue_ptr = 0
  /\ last_scan_times = <<>>
  /\ batch = <<>>
  /\ batch_log = <<>>
  /\ NoOracleCalls
  /\ IdleRun /\ IdleWork /\ IdleSel /\ IdleCon /\ IdleCyc

InBudget == now < start_time + MaxDuration

\* no crises: await asyncio.sleep(10); continue
SchedNoCrises ==
  /\ sched_pc = "LOOP" /\ InBudget
  /\ get_crises(crises, ScanLimit) = <<>>
  /\ now' = now + 10
  /\ UNCHANGED <<crises, timeline_items, adhoc_analyses, schedVars>>
  /\ UNCHANGED <<oracle_calls, runVars, workVars, selVars, conVars, invVars, cycVars>>

\* one iteration up to the dispatch of its batch (or the sleep of an empty one)
SchedBuildBatch ==
  /\ sched_pc = "LOOP" /\ InBudget
  /\ get_crises(crises, ScanLimit) # <<>>
  /\ LET r == build_batch(crises, get_crises(crises, ScanLimit),
                          last_scan_times, normal_queue_ptr, now)
     IN  /\ batch' = r.batch
         /\ normal_queue_ptr' = r.ptr
         /\ batch_log' = Append(batch_log, [t |-> now, ids |-> r.batch])
         /\ IF r.batch = <<>>
              THEN /\ now' = now + 5
                   /\ UNCHANGED <<sched_pc, last_scan_times>>
              ELSE /\ last_scan_times' = RecordScans(last_scan_times, r.batch, now)
                   /\ sched_pc' = "RUNNING"
                   /\ UNCHANGED now
  /\ UNCHANGED <<crises, timeline_items, adhoc_analyses>>
  /\ UNCHANGED <<oracle_calls, runVars, workVars, selVars, conVars, invVars, cycVars>>

\* await asyncio.gather(*tasks); await asyncio.sleep(2)
SchedBatchDone ==
  /\ sched_pc = "RUNNING"
  /\ \E d \in BatchSeconds : now' = now + d
  /\ sched_pc' = "LOOP"
  /\ UNCHANGED <<normal_queue_ptr, last_scan_times, batch, batch_log>>
  /\ UNCHANGED <<crises, timeline_items, adhoc_analyses>>
  /\ UNCHANGED <<oracle_calls, runVars, workVars, selVars, conVars, invVars, cycVars>>

\* the while condition fails: the phase is over
SchedPhaseEnd ==
  /\ sched_pc = "LOOP" /\ ~InBudget
  /\ sched_pc' = "ENDED"
  /\ UNCHANGED <<normal_queue_ptr, last_scan_times, batch, batch_log>>
  /\ UNCHANGED <<storeVars, oracle_calls, runVars, workVars, selVars, conVars, invVars, cycVars>>

NextSched ==
  \/ SchedNoCrises
  \/ SchedBuildBatch
  \/ SchedBatchDone
  \/ SchedPhaseEnd

SpecSched == InitSched /\ [][NextSched]_vars

\* the active set: the crises an iteration fetches
ActiveIds == SeqRange(get_crises(crises, ScanLimit))
HighIds == {c \in ActiveIds : crises[c].severity >= HighRiskSeverity}
NormalIds == {c \in ActiveIds : crises[c].severity < HighRiskSeverity}
InBatch(i, c) == c \in SeqRange(batch_log[i].ids)

\* C8: a high-risk crisis dispatched in the batch built at time t is in no
\* batch built up to t + 120 s, and is in the first batch built later than
\* t + 120 s (t being its latest dispatch).
C8_HighRiskCooldown ==
  \A i, j \in DOMAIN batch_log : \A c \in HighIds :
    (i < j /\ InBatch(i, c)) =>
      /\ (batch_log[j].t - batch_log[i].t <= HIGH_RISK_SCAN_INTERVAL) => ~InBatch(j, c)
      /\ (/\ batch_log[j].t - batch_log[i].t > HIGH_RISK_SCAN_INTERVAL
          /\ \A k \in DOMAIN batch_log : (i < k /\ k < j) => ~InBatch(k, c))
         => InBatch(j, c)

\* scanned at t = 0, absent from the batch at t = 60, back in the one at 121
C8_Witness ==
  \E c \in HighIds : \E i, j, k \in DOMAIN batch_log :
    /\ InBatch(i, c)
    /\ batch_log[j].t = batch_log[i].t + 60 /\ ~InBatch(j, c)
    /\ batch_log[k].t = batch_log[i].t + 121 /\ InBatch(k, c)

CeilDiv(a, b) == (a + b - 1) \div b

AllNormalSeenBy(n) ==
  \A c \in NormalIds : \E i \in 1..n : InBatch(i, c)

\* C9 as stated: with N normal-risk crises every one of them has been
\* dispatched within the first ceil(N / 5) iterations.
C9_AllNormalWithinCeil ==
  LET need == CeilDiv(Cardinality(NormalIds), MAX_CONCURRENT_SCANS)
  IN  (NormalIds # {} /\ Len(batch_log) >= need) => AllNormalSeenBy(need)

\* C9 amended: the same, when the active set holds no high-risk crisis.
C9_AllNormalWithinCeilNoHigh ==
  LET need == CeilDiv(Cardinality(NormalIds), MAX_CONCURRENT_SCANS)
  IN  (NormalIds # {} /\ HighIds = {} /\ Len(batch_log) >= need)
        => AllNormalSeenBy(need)

\* more than 5 normal-risk crises, none high-risk, two iterations done: the
\* second one dispatched a crisis the first had not
C9_Witness ==
  /\ HighIds = {}
  /\ Cardinality(NormalIds) > MAX_CONCURRENT_SCANS
  /\ Len(batch_log) = 2
  /\ \E c \in NormalIds : ~InBatch(1, c) /\ InBatch(2, c)

\* C10: no batch holds more than MAX_CONCURRENT_SCANS crises.
C10_BatchWithinCeiling ==
  \A i \in DOMAIN batch_log : Len(batch_log[i].ids) <= MAX_CONCURRENT_SCANS

\* batches i < j are consecutive dispatches of crisis c
ConsecutiveDispatches(i, j, c) ==
  /\ i < j /\ InBatch(i, c) /\ InBatch(j, c)
  /\ \A k \in DOMAIN batch_log : (i < k /\ k < j) => ~InBatch(k, c)

\* an iteration has just built its batch
BatchBuilt == Len(batch_log') = Len(batch_log) + 1

\* the slots the high-risk crises of the batch just built left free
FreeSlots == MAX_CONCURRENT_SCANS - Cardinality(SeqRange(batch') \cap HighIds)

\* C31: normal-risk crises are dispatched in cyclic round-robin order: with
\* an unchanged normal-risk list, from one dispatch of a normal-risk crisis
\* to its next dispatch in a later batch every other normal-risk crisis is
\* dispatched at least once; and in every iteration with free slots the
\* pointer into the normal-risk list advances by the number of free slots
\* (and stays in an iteration without free slots).
C31_RoundRobinOrder ==
  /\ [](\A i, j \in DOMAIN batch_log : \A c \in NormalIds :
          ConsecutiveDispatches(i, j, c) =>
            \A o \in NormalIds : \E k \in i..j : InBatch(k, o))
  /\ [][(BatchBuilt /\ NormalIds # {}) =>
          normal_queue_ptr' =
            IF FreeSlots > 0 THEN normal_queue_ptr + FreeSlots ELSE normal_queue_ptr
       ]_vars

\* the units asyncio.gather is waiting for
InFlight == IF sched_pc = "RUNNING" THEN SeqRange(batch) ELSE {}

NoDuplicates(list) == Cardinality(SeqRange(list)) = Len(list)

\* C32: at most one deep-scan unit is in flight for a crisis: no batch holds
\* a crisis twice (also when the pointer wraps around a normal-risk list
\* shorter than the free slots), a batch is built only when no unit of an
\* earlier batch is still running, and when the units of a batch start the
\* last-scan timestamp of each of its crises is already that of the dispatch.
C32_OneUnitPerCrisis ==
  /\ [](\A i \in DOMAIN batch_log : NoDuplicates(batch_log[i].ids))
  /\ [](NoDuplicates(batch))
  /\ [](\A c \in InFlight :
          /\ c \in DOMAIN last_scan_times
          /\ last_scan_times[c] = batch_log[Len(batch_log)].t
          /\ last_scan_times[c] = now)
  /\ [][BatchBuilt => InFlight = {}]_vars

\* two normal-risk crises share five free slots: the pointer wrapped around
\* twice in the first batch, and a second batch was dispatched after the
\* first one completed
C32_Witness ==
  /\ sched_pc = "RUNNING"
  /\ HighIds = {}
  /\ Cardinality(NormalIds) = 2
  /\ Len(batch_log) = 2
  /\ InFlight = NormalIds
  /\ normal_queue_ptr = 2 * MAX_CONCURRENT_SCANS
  /\ batch_log[2].t > batch_log[1].t

\* beside a high-risk crisis there are more normal-risk crises than slots;
\* one of them was dispatched in the first batch and again in the third,
\* not in the second, after the pointer wrapped around
C31_Witness ==
  /\ HighIds # {}
  /\ Cardinality(NormalIds) > MAX_CONCURRENT_SCANS
  /\ Len(batch_log) >= 3
  /\ \E c \in NormalIds : ConsecutiveDispatches(1, 3, c)
  /\ normal_queue_ptr > Cardinality(NormalIds)


(***************************************************************************)
(* The scheduler of a deep-gathering phase whose budget does not expire,   *)
(* on an unchanged active set.  The loop reads the clock only in the       *)
(* cooldown test now - last_scan_times.get(id, 0) > 120, so the clock is   *)
(* kept where it is and the recorded scan times are moved back by the      *)
(* seconds that pass; a scan older than the interval is kept at 121 s,     *)
(* which the test cannot tell from any older one.  The pointer is only     *)
(* used modulo len(normal_risk) and is kept reduced.                       *)
(***************************************************************************)
\* seconds from one batch build to the next, also longer than the cooldown
LongBatchSeconds == BatchSeconds \cup {HIGH_RISK_SCAN_INTERVAL + 1}

\* last_scan_times after d seconds have passed
Elapse(last, d) ==
  LET oldest == now - (HIGH_RISK_SCAN_INTERVAL + 1)
  IN  [c \in DOMAIN last |-> IF last[c] - d < oldest THEN oldest ELSE last[c] - d]

InitRotate ==
  /\ \E nh \in 0..MaxHigh, nn \in 1..MaxNormal :
       crises = [i \in 1..(nh + nn) |->
                   CrisisRow("Crisis",
                             IF i <= nh THEN HighRiskSeverity ELSE HighRiskSeverity - 1,
                             start_time - 100 + i)]
  /\ timeline_items = <<>>
  /\ adhoc_analyses = <<>>
  /\ now = start_time
  /\ sched_pc = "LOOP"
  /\ normal_queue_ptr = 0
  /\ last_scan_times = <<>>
  /\ batch = <<>>
  /\ batch_log = <<>>
  /\ NoOracleCalls
  /\ IdleRun /\ IdleWork /\ IdleSel /\ IdleCon /\ IdleCyc

\* lines 338-364: one iteration up to the dispatch of its batch, or the
\* sleep of 5 s of an empty one
RotateBuildBatch ==
  /\ sched_pc = "LOOP"
  /\ LET all_crises == get_crises(crises, ScanLimit)
         r == build_batch(crises, all_crises, last_scan_times, normal_queue_ptr, now)
     IN  /\ batch' = r.batch
         /\ normal_queue_ptr' = r.ptr % Len(normal_risk(crises, all_crises))
         /\ IF r.batch = <<>>
              THEN /\ last_scan_times' = Elapse(last_scan_times, 5)
                   /\ UNCHANGED sched_pc
              ELSE /\ last_scan_times' = RecordScans(last_scan_times, r.batch, now)
                   /\ sched_pc' = "RUNNING"
  /\ UNCHANGED <<storeVars, batch_log>>
  /\ UNCHANGED <<oracle_calls, runVars, workVars, selVars, conVars, invVars, cycVars>>

\* lines 366-367: await asyncio.gather(*tasks); await asyncio.sleep(2)
RotateBatchDone ==
  /\ sched_pc = "RUNNING"
  /\ \E d \in LongBatchSeconds : last_scan_times' = Elapse(last_scan_times, d)
  /\ sched_pc' = "LOOP"
  /\ UNCHANGED <<storeVars, normal_queue_ptr, batch, batch_log>>
  /\ UNCHANGED <<oracle_calls, runVars, workVars, selVars, conVars, invVars, cycVars>>

NextRotate == RotateBuildBatch \/ RotateBatchDone

SpecRotate == InitRotate /\ [][NextRotate]_vars

\* the loop keeps iterating while the budget lasts: a dispatched batch
\* completes, and a new one is built again and again (building is possible
\* whenever the loop is at its head, so this is its weak fairness)
FairSpecRotate ==
  SpecRotate /\ WF_vars(RotateBatchDone) /\ []<><<RotateBuildBatch>>_vars

\* every batch member gets an entry in last_scan_times (line 364), so the
\* crises dispatched so far are its keys
Dispatched == DOMAIN last_scan_times

\* C30: in a deep-gathering phase whose budget does not expire and whose
\* active set does not change, every normal-risk crisis is eventually
\* dispatched in some batch, whatever the number of high-risk crises and
\* the durations of the batches.
C30_NormalEventuallyDispatched == <>(NormalIds \subseteq Dispatched)

\* five or more high-risk crises were dispatched, a batch of more than 120 s
\* has passed, and no normal-risk crisis has been dispatched
C30_Starved ==
  /\ sched_pc = "LOOP"
  /\ Cardinality(HighIds) >= MAX_CONCURRENT_SCANS
  /\ HighIds \subseteq Dispatched
  /\ \A c \in HighIds : CooldownOver(last_scan_times, c, now)
  /\ NormalIds \cap Dispatched = {}

(***************************************************************************)
(* The supervisor loop: scanner_service.py start_monitoring, with          *)
(* Discovery (run_discovery_phase, analyze_and_assess_threats), Selection, *)
(* Deep-gathering (its deep-scan units process_single_crisis_task) and the *)
(* retention sweep (crud.delete_old_crises)                                *)
(***************************************************************************)
DISCOVERY_WINDOW == 120
CYCLE_TOTAL_DURATION == 3600
GatherMargin == 30             \* CYCLE_TOTAL_DURATION - DISCOVERY_WINDOW - 30
CycleSleep == 5                \* await asyncio.sleep(5) at the end of a cycle
RetentionSeconds == 259200     \* days_retention = 3
DefaultSeverity == 50          \* c_data.get("severity", 50)

MaxCycles == 1                 \* cycles the modelled supervisor runs
MaxDescriptors == 1            \* most candidate descriptors in one Oracle answer
DeepBatchSeconds == 3450       \* seconds one modelled scheduler iteration takes

gather_len == CYCLE_TOTAL_DURATION - DISCOVERY_WINDOW - GatherMargin

\* ILIKE compares without regard to case: both sides folded to lower case
UpperCase == <<"A", "B", "C", "D", "E", "F", "G", "H", "I", "J", "K", "L", "M", "N", "O", "P", "Q", "R", "S", "T", "U", "V", "W", "X", "Y", "Z">>
LowerCase == <<"a", "b", "c", "d", "e", "f", "g", "h", "i", "j", "k", "l", "m", "n", "o", "p", "q", "r", "s", "t", "u", "v", "w", "x", "y", "z">>
FoldChar(c) ==
  IF \E i \in DOMAIN UpperCase : UpperCase[i] = c
    THEN LowerCase[CHOOSE i \in DOMAIN UpperCase : UpperCase[i] = c]
    ELSE c
RECURSIVE Fold(_)
Fold(s) == IF s = "" THEN "" ELSE FoldChar(SubSeq(s, 1, 1)) \o Fold(SubSeq(s, 2, Len(s)))

\* mutant: the match is case-sensitive (LIKE)
ilike_case_sensitive(value, name) == Contains(name, value)

\* column.ilike(f"%{name}%"): the column's value holds name, case ignored
ilike(value, name) == Contains(Fold(name), Fold(value))

\* Crisis.name.ilike(f"%{name}%") ... scalar_one_or_none(): the matching row,
\* none, or MultipleResultsFound
get_crisis_by_fuzzy_name(tbl, name) ==
  LET hit == {i \in DOMAIN tbl : ilike(tbl[i].name, name)}
  IN  IF hit = {} THEN [id |-> None, raised |-> FALSE]
      ELSE IF Cardinality(hit) = 1
        THEN [id |-> CHOOSE i \in hit : TRUE, raised |-> FALSE]
      ELSE [id |-> None, raised |-> TRUE]

\* the candidate descriptors the threat-assessment Oracle may return
DescriptorNames == {"", "Flood", "Bridge Collapse"}
SeverityAnswers ==
  {[kind |-> "int", value |-> v] : v \in {150}}
    \cup {[kind |-> "text", value |-> 0], [kind |-> "missing", value |-> 0]}
Descriptors == [name : DescriptorNames, severity : SeverityAnswers]

\* int(c_data.get("severity", 50)): [ok, value]
severity_of(d) ==
  IF d.severity.kind = "int" THEN [ok |-> TRUE, value |-> d.severity.value]
  ELSE IF d.severity.kind = "missing" THEN [ok |-> TRUE, value |-> DefaultSeverity]
  ELSE [ok |-> FALSE, value |-> 0]

\* id = uuid.uuid4(): a value no other row ever had (rows are created in
\* Discovery only, so the rows of this cycle are all still there)
NewCrisisId(tbl, cycle) ==
  10 * (cycle + 1) + Cardinality({i \in DOMAIN tbl : i > 10 * (cycle + 1)}) + 1

DescriptionOf(name) == name \o " rumor"

\* crud.create_crisis
create_crisis(tbl, id, name, severity, t) ==
  [i \in DOMAIN tbl \cup {id} |->
     IF i = id THEN [CrisisRow(name, severity, t) EXCEPT !.description = DescriptionOf(name)]
     ELSE tbl[i]]

\* the rest of a pass for a descriptor that names no existing crisis
assess_new(acc, d, k, cycle, t) ==
  LET sev == severity_of(d)
      id == NewCrisisId(acc.crises, cycle)
      ctbl == create_crisis(acc.crises, id, d.name, sev.value, t)
      made == create_timeline_item(acc.items, ctbl, id, "Signal Detected: " \o d.name,
                                   "Automated verification agents have been deployed.",
                                   "UNCONFIRMED")
  IN  IF ~sev.ok THEN [acc EXCEPT !.raised = TRUE]
      ELSE IF made.raised THEN [acc EXCEPT !.crises = ctbl, !.raised = TRUE]
      ELSE [crises |-> ctbl, items |-> made.tbl,
            seeds |-> acc.seeds \cup {[crisis_id |-> id, text |-> DescriptionOf(d.name)]},
            raised |-> FALSE]

\* mutant: a descriptor naming an existing crisis refreshes that row's severity
assess_descriptor_updates_existing(acc, d, k, cycle, t, store_ok) ==
  LET existing == get_crisis_by_fuzzy_name(acc.crises, d.name)
  IN  IF acc.raised THEN acc
      ELSE IF d.name = "" THEN acc
      ELSE IF ~store_ok \/ existing.raised THEN [acc EXCEPT !.raised = TRUE]
      ELSE IF existing.id # None
        THEN [acc EXCEPT !.crises[existing.id].severity = DefaultSeverity]
      ELSE assess_new(acc, d, k, cycle, t)

\* one pass of the loop "for c_data in crises_data" (lines 140-174); acc is
\* [crises, items, seeds, raised], k the position of the descriptor
assess_descriptor(acc, d, k, cycle, t, store_ok) ==
  LET existing == get_crisis_by_fuzzy_name(acc.crises, d.name)
  IN  IF acc.raised THEN acc
      ELSE IF d.name = "" THEN acc
      ELSE IF ~store_ok \/ existing.raised THEN [acc EXCEPT !.raised = TRUE]
      ELSE IF existing.id # None THEN acc
      ELSE assess_new(acc, d, k, cycle, t)

\* the loop over crises_data
RECURSIVE assess_all(_, _, _, _, _, _)
assess_all(acc, data, k, cycle, t, store_ok) ==
  IF data = <<>> THEN acc
  ELSE assess_all(assess_descriptor(acc, Head(data), k, cycle, t, store_ok),
                  Tail(data), k + 1, cycle, t, store_ok)

\* what Discovery's collaborators do: the signal sources raise, no headline
\* is relevant, the Oracle raises, answers with text that is not JSON, or
\* answers with a list of descriptors
DiscoveryOutcomes ==
  {[kind |-> k, data |-> <<>>] :
     k \in {"sources_raise", "no_signals", "oracle_raise", "malformed"}}
    \cup {[kind |-> "ok", data |-> l] : l \in SeqsUpTo(Descriptors, MaxDescriptors)}

\* analyze_and_assess_threats: every exception of the try is absorbed
analyze_and_assess_threats(ctbl, items, out, cycle, t, store_ok) ==
  LET start == [crises |-> ctbl, items |-> items, seeds |-> {}, raised |-> FALSE]
  IN  IF out.kind = "ok"
        THEN [assess_all(start, out.data, 1, cycle, t, store_ok) EXCEPT !.raised = FALSE]
        ELSE start

\* run_discovery_phase: an exception of the signal sources propagates
run_discovery_phase(ctbl, items, out, cycle, t, store_ok) ==
  IF out.kind = "sources_raise"
    THEN [crises |-> ctbl, items |-> items, seeds |-> {}, raised |-> TRUE]
  ELSE IF out.kind = "no_signals"
    THEN [crises |-> ctbl, items |-> items, seeds |-> {}, raised |-> FALSE]
  ELSE analyze_and_assess_threats(ctbl, items, out, cycle, t, store_ok)

\* whether a collaborator of Discovery failed: a signal source or the Oracle
\* raised, the answer was not JSON, or a descriptor could not be processed
discovery_failed(ctbl, out) ==
  \/ out.kind \in {"sources_raise", "oracle_raise", "malformed"}
  \/ assess_all([crises |-> ctbl, items |-> <<>>, seeds |-> {}, raised |-> FALSE],
                out.data, 1, 0, 0, TRUE).raised

\* mutant: Discovery runs outside the try of lines 392-417
after_discovery_uncaught(raised) == IF raised THEN "HALTED" ELSE "SELECTION"

\* start_monitoring lines 392-417: "except Exception" absorbs whatever
\* Discovery raises
after_discovery(raised) == "SELECTION"

\* a selected_ids entry that is the id of no candidate
UnknownId == 999

\* the selection Oracle's answers over the candidates' ids
SelectionOutcomesOver(ids) ==
  {[kind |-> "raise", ids |-> {}]}
    \cup {[kind |-> "ok", ids |-> chosen] : chosen \in SUBSET (ids \cup {UnknownId})}

\* crud.delete_old_crises: the ids it deletes
delete_old_crises(tbl, t) ==
  {c \in DOMAIN tbl : tbl[c].created_at < t - RetentionSeconds}

\* what one deep-scan unit meets: an exception before any claim, no claim
\* (no article or nothing extracted), or one extracted claim; and the answers
\* of the two Oracles its runs consult
CycleSynthOutcomes == {o \in SynthOutcomes : o.status \in {"VERIFIED", ""}}
CycleConclusionOutcomes ==
  {o \in ConclusionOutcomes : o.verdict_status \in {"CONFIRMED SITUATION", ""}}
NoAnswer == [ok |-> FALSE, verdict_status |-> ""]
NoSynthesis == [kind |-> "raise", status |-> ""]
UnitOutcomes ==
  {[kind |-> "raise", synth |-> NoSynthesis, first |-> NoAnswer, last |-> NoAnswer]}
    \cup [kind : {"none"}, synth : {NoSynthesis}, first : {NoAnswer},
          last : CycleConclusionOutcomes]
    \cup [kind : {"claim"}, synth : CycleSynthOutcomes,
          first : CycleConclusionOutcomes, last : CycleConclusionOutcomes]

\* verification_orchestrator.run_verification_pipeline for a crisis target,
\* from its SYNTHESIZE on: [crises, items]
run_for_crisis(ctbl, items, claim, crisis_id, synth, concl, t, store) ==
  LET r == synthesize_evidence(items, <<>>, ctbl, claim, crisis_id, None, None,
                               synth, store)
  IN  [crises |-> IF store = "ok"
                    THEN synthesize_crisis_conclusion(ctbl, r.items, crisis_id, concl, t)
                    ELSE ctbl,
       items |-> r.items]

\* process_single_crisis_task: [crises, items]
process_single_crisis_task(ctbl, items, crisis_id, out, t, store_ok) ==
  LET store == IF store_ok THEN "ok" ELSE "down"
      known == get_timeline_item_by_claim_text(items, ClaimText) # None
      ran == IF out.kind = "claim" /\ ~known
               THEN run_for_crisis(ctbl, items, ClaimText, crisis_id, out.synth,
                                   out.first, t, store)
               ELSE [crises |-> ctbl, items |-> items]
  IN  IF ~store_ok \/ get_crisis(ctbl, crisis_id) = None \/ out.kind = "raise"
        THEN [crises |-> ctbl, items |-> items]
        ELSE [crises |-> synthesize_crisis_conclusion(ran.crises, ran.items, crisis_id,
                                                      out.last, t),
              items |-> ran.items]

InitCycle ==
  /\ crises = (1 :> CrisisRow("Downtown Flood", 80, start_time - RetentionSeconds + 1000))
  /\ timeline_items =
       (1 :> [crisis_id |-> 1, claim_text |-> SeedClaim,
              summary |-> "Automated verification agents have been deployed.",
              status |-> "UNCONFIRMED"])
  /\ adhoc_analyses = <<>>
  /\ now = start_time
  /\ cyc_pc = "DISCOVERY"
  /\ cycles = 0
  /\ store_healthy = TRUE
  /\ seeds = {}
  /\ deep_start = 0
  /\ cyc_op = NoOp
  /\ sched_pc = "IDLE" /\ normal_queue_ptr = 0 /\ last_scan_times = <<>>
  /\ batch = <<>> /\ batch_log = <<>>
  /\ NoOracleCalls
  /\ IdleRun /\ IdleWork /\ IdleSel /\ IdleCon

\* whether the store operations of a step succeed
StoreAnswers == {store_healthy}

\* the store becomes unreachable: from now on every operation on it raises
StoreFails ==
  /\ cyc_pc \notin {"IDLE", "HALTED"}
  /\ store_healthy
  /\ store_healthy' = FALSE
  /\ cyc_op' = [op |-> "store_fails", failed |-> FALSE]
  /\ UNCHANGED <<storeVars, cyc_pc, cycles, seeds, deep_start, oracle_calls>>
  /\ UNCHANGED <<runVars, workVars, selVars, schedVars, conVars, invVars>>

\* seconds Discovery takes before it returns or fails
DiscoverySeconds == {30}

\* mutant: Selection follows Discovery at once
window_end_no_wait(cycle_start, elapsed) == cycle_start + elapsed

\* lines 422-425: elapsed = time.time() - cycle_start, and the sleep for the
\* rest of the window if Discovery was faster
window_end(cycle_start, elapsed) ==
  cycle_start + (IF elapsed < DISCOVERY_WINDOW THEN DISCOVERY_WINDOW ELSE elapsed)

\* 1. DISCOVERY, then the wait for the discovery window to close
CycleDiscovery ==
  /\ cyc_pc = "DISCOVERY"
  /\ cycles < MaxCycles
  /\ \E out \in DiscoveryOutcomes, store_ok \in StoreAnswers :
       LET r == run_discovery_phase(crises, timeline_items, out, cycles, now, store_ok)
       IN  /\ crises' = r.crises
           /\ timeline_items' = r.items
           /\ seeds' = seeds \cup r.seeds
           /\ cyc_pc' = after_discovery(r.raised)
           /\ cyc_op' = [op |-> "discovery", failed |-> discovery_failed(crises, out)]
  /\ \E elapsed \in DiscoverySeconds : now' = window_end(now, elapsed)
  /\ UNCHANGED <<adhoc_analyses, cycles, store_healthy, deep_start, oracle_calls>>
  /\ UNCHANGED <<runVars, workVars, selVars, schedVars, conVars, invVars>>

\* 2. AGENTIC SELECTION; a store exception leaves start_monitoring
CycleSelection ==
  /\ cyc_pc = "SELECTION"
  /\ \E out \in SelectionOutcomesOver(DOMAIN crises), store_ok \in StoreAnswers :
       /\ IF store_ok
            THEN LET del == perform_agentic_selection(crises, out)
                 IN  /\ crises' = DeleteCrises(crises, del)
                     /\ timeline_items' = CascadeItems(timeline_items, del)
                     /\ cyc_pc' = "DEEP_GATHERING"
            ELSE /\ cyc_pc' = "HALTED"
                 /\ UNCHANGED <<crises, timeline_items>>
       /\ cyc_op' = [op |-> "selection", failed |-> out.kind = "raise"]
  /\ deep_start' = now
  /\ normal_queue_ptr' = 0
  /\ last_scan_times' = <<>>
  /\ UNCHANGED <<adhoc_analyses, now, cycles, store_healthy, seeds, oracle_calls>>
  /\ UNCHANGED <<sched_pc, batch, batch_log, runVars, workVars, selVars, conVars, invVars>>

\* 3. DEEP GATHERING: one iteration of the while loop builds its batch
CycleDeepBatch ==
  /\ cyc_pc = "DEEP_GATHERING"
  /\ now < deep_start + gather_len
  /\ \E store_ok \in StoreAnswers :
       IF store_ok
         THEN LET r == build_batch(crises, get_crises(crises, ScanLimit),
                                   last_scan_times, normal_queue_ptr, now)
              IN  /\ batch' = r.batch
                  /\ normal_queue_ptr' = r.ptr
                  /\ last_scan_times' = RecordScans(last_scan_times, r.batch, now)
                  /\ cyc_pc' = "DEEP_RUNNING"
         ELSE /\ cyc_pc' = "HALTED"
              /\ UNCHANGED <<batch, normal_queue_ptr, last_scan_times>>
  /\ cyc_op' = [op |-> "batch", failed |-> FALSE]
  /\ UNCHANGED <<storeVars, cycles, store_healthy, seeds, deep_start, oracle_calls>>
  /\ UNCHANGED <<sched_pc, batch_log, runVars, workVars, selVars, conVars, invVars>>

\* a deep-scan unit of the batch runs to its end
CycleDeepUnit ==
  /\ cyc_pc = "DEEP_RUNNING"
  /\ batch # <<>>
  /\ \E out \in UnitOutcomes, store_ok \in StoreAnswers :
       LET r == process_single_crisis_task(crises, timeline_items, Head(batch), out,
                                           now, store_ok)
       IN  /\ crises' = r.crises
           /\ timeline_items' = r.items
           /\ cyc_op' = [op |-> "deep_scan", failed |-> out.kind = "raise"]
  /\ batch' = Tail(batch)
  /\ UNCHANGED <<adhoc_analyses, now, cyc_pc, cycles, store_healthy, seeds, deep_start>>
  /\ UNCHANGED <<sched_pc, normal_queue_ptr, last_scan_times, batch_log, oracle_calls>>
  /\ UNCHANGED <<runVars, workVars, selVars, conVars, invVars>>

\* asyncio.gather has returned; the sleep, and back to the loop test
CycleDeepBatchDone ==
  /\ cyc_pc = "DEEP_RUNNING"
  /\ batch = <<>>
  /\ now' = now + DeepBatchSeconds
  /\ cyc_pc' = "DEEP_GATHERING"
  /\ cyc_op' = [op |-> "sleep", failed |-> FALSE]
  /\ UNCHANGED <<crises, timeline_items, adhoc_analyses, oracle_calls>>
  /\ UNCHANGED <<cycles, store_healthy, seeds, deep_start>>
  /\ UNCHANGED <<runVars, workVars, selVars, schedVars, conVars, invVars>>

\* the phase's time is up: the retention sweep, the sleep, the next cycle
CycleSweep ==
  /\ cyc_pc = "DEEP_GATHERING"
  /\ now >= deep_start + gather_len
  /\ \E store_ok \in StoreAnswers :
       IF store_ok
         THEN LET del == delete_old_crises(crises, now)
              IN  /\ crises' = DeleteCrises(crises, del)
                  /\ timeline_items' = CascadeItems(timeline_items, del)
                  /\ cyc_pc' = "DISCOVERY"
                  /\ cycles' = cycles + 1
                  /\ now' = now + CycleSleep
         ELSE /\ cyc_pc' = "HALTED"
              /\ UNCHANGED <<crises, timeline_items, cycles, now>>
  /\ cyc_op' = [op |-> "sweep", failed |-> FALSE]
  /\ normal_queue_ptr' = 0        \* run_deep_gathering_phase has returned:
  /\ last_scan_times' = <<>>      \* its locals are gone
  /\ UNCHANGED <<adhoc_analyses, store_healthy, seeds, deep_start, oracle_calls>>
  /\ UNCHANGED <<sched_pc, batch, batch_log, runVars, workVars, selVars, conVars, invVars>>

\* a detached seeding run (_background_seed_timeline) executes
SeedRun ==
  /\ \E s \in seeds :
       /\ \E synth \in CycleSynthOutcomes, concl \in CycleConclusionOutcomes,
              store_ok \in StoreAnswers :
            LET r == run_for_crisis(crises, timeline_items, s.text, s.crisis_id,
                                    synth, concl, now,
                                    IF store_ok THEN "ok" ELSE "down")
            IN  /\ crises' = r.crises
                /\ timeline_items' = r.items
                /\ cyc_op' = [op |-> "seed_run", failed |-> synth.kind = "raise"]
       /\ seeds' = seeds \ {s}
  /\ UNCHANGED <<adhoc_analyses, now, cyc_pc, cycles, store_healthy, deep_start>>
  /\ UNCHANGED <<oracle_calls, runVars, workVars, selVars, schedVars, conVars, invVars>>

SupervisorStep ==
  \/ CycleDiscovery
  \/ CycleSelection
  \/ CycleDeepBatch
  \/ CycleDeepUnit
  \/ CycleDeepBatchDone
  \/ CycleSweep

NextCycle == SupervisorStep \/ SeedRun \/ StoreFails

SpecCycle == InitCycle /\ [][NextCycle]_vars

\* the states in which start_monitoring has a next step
SupervisorEnabled ==
  \/ cyc_pc = "DISCOVERY" /\ cycles < MaxCycles
  \/ cyc_pc \in {"SELECTION", "DEEP_GATHERING", "DEEP_RUNNING"}

\* start_monitoring is one coroutine: every await of it returns, so it is
\* not forever at a step it can take. This is WF_vars(SupervisorStep) with
\* ENABLED <<SupervisorStep>>_vars written out as SupervisorEnabled.
FairSpecCycle ==
  SpecCycle /\ ([]<>(~SupervisorEnabled) \/ []<><<SupervisorStep>>_vars)

(***************************************************************************)
(* Claims about the supervisor loop                                        *)
(***************************************************************************)
\* C12: in every reachable state every Crisis row has a severity within
\* [0,100], whatever severity the threat-assessment Oracle returns in a
\* candidate descriptor during Discovery.
C12_SeverityWithinRange ==
  \A c \in DOMAIN crises : crises[c].severity \in 0..100

\* the order of the phases in start_monitoring
PhaseOrder ==
  {<<"DISCOVERY", "SELECTION">>, <<"SELECTION", "DEEP_GATHERING">>,
   <<"DEEP_GATHERING", "DEEP_RUNNING">>, <<"DEEP_RUNNING", "DEEP_GATHERING">>,
   <<"DEEP_GATHERING", "DISCOVERY">>}

\* C16: with the Candidate Store healthy the supervisor loop never halts,
\* whatever fails among the signal sources, hybrid search, the Gatherers and
\* the Oracle: in every cycle Discovery is followed by Selection, by
\* Deep-gathering and by the start of the next cycle.
C16_LoopNeverHalts ==
  /\ [](store_healthy => cyc_pc # "HALTED")
  /\ [][(store_healthy' /\ cyc_pc' # cyc_pc)
          => /\ <<cyc_pc, cyc_pc'>> \in PhaseOrder
             /\ cycles' = IF cyc_pc' = "DISCOVERY" THEN cycles + 1 ELSE cycles]_vars
  /\ <>(~store_healthy \/ (cyc_pc = "DISCOVERY" /\ cycles = MaxCycles))

PhaseLeft(phase) == cyc_pc = phase /\ cyc_pc' # phase
PhaseEntered(phase) == cyc_pc # phase /\ cyc_pc' = phase

\* C39: the phases of a cycle follow one another as Discovery, Selection,
\* Deep-gathering, retention sweep.  Selection is entered only from
\* Discovery, failed or not, and no sooner than DISCOVERY_WINDOW seconds
\* after the cycle began; Deep-gathering is entered only by the end of
\* Selection; the sweep is the one step from the end of Deep-gathering, its
\* time used up, to the next cycle's Discovery
C39_PhasesInOrder ==
  /\ [][PhaseEntered("SELECTION") =>
          /\ cyc_pc = "DISCOVERY" /\ cyc_op'.op = "discovery"
          /\ now' >= now + DISCOVERY_WINDOW]_vars
  /\ [][PhaseLeft("DISCOVERY") => cyc_pc' = "SELECTION"]_vars
  /\ [][PhaseLeft("SELECTION") =>
          /\ cyc_op'.op = "selection"
          /\ cyc_pc' \in {"DEEP_GATHERING", "HALTED"}
          /\ deep_start' = now /\ now' = now]_vars
  /\ [][(cyc_pc \notin {"DEEP_GATHERING", "DEEP_RUNNING"} /\ cyc_pc' = "DEEP_GATHERING")
          => cyc_pc = "SELECTION"]_vars
  /\ [][PhaseEntered("DEEP_RUNNING") =>
          cyc_pc = "DEEP_GATHERING" /\ now < deep_start + gather_len]_vars
  /\ [][PhaseEntered("DISCOVERY") =>
          /\ cyc_pc = "DEEP_GATHERING" /\ cyc_op'.op = "sweep"
          /\ now >= deep_start + gather_len
          /\ cycles' = cycles + 1]_vars
  /\ [][(cyc_op'.op = "sweep" /\ cyc_op' # cyc_op) =>
          cyc_pc = "DEEP_GATHERING" /\ cyc_pc' \in {"DISCOVERY", "HALTED"}]_vars

\* a whole cycle has passed: the sweep has just handed over to the next
\* cycle's Discovery
C39_Witness ==
  /\ cyc_pc = "DISCOVERY" /\ cycles = 1
  /\ cyc_op.op = "sweep"
  /\ now >= start_time + DISCOVERY_WINDOW + gather_len

\* C16 witness: Discovery has failed and the loop stands at Selection
C16_Witness ==
  /\ store_healthy
  /\ cyc_pc = "SELECTION"
  /\ cyc_op = [op |-> "discovery", failed |-> TRUE]

\* the fields update_crisis_verdict writes
VerdictUpdateOf(old, new) ==
  new = [old EXCEPT !.verdict_status = new.verdict_status,
                    !.verdict_summary = new.verdict_summary,
                    !.updated_at = new.updated_at]

\* the operations that invoke the Conclusion Synthesizer
ConclusionBearing == {"deep_scan", "seed_run"}

\* C17: no operation other than the Conclusion Synthesizer changes a field
\* of an existing Crisis row: Discovery only creates rows, Selection and the
\* retention sweep only delete them, and verification runs and deep-scan
\* units write to a row only through the verdict update.
C17_OnlyConclusionMutatesCrisis ==
  [][/\ \A c \in DOMAIN crises \cap DOMAIN crises' :
          \/ crises'[c] = crises[c]
          \/ /\ cyc_op'.op \in ConclusionBearing
             /\ VerdictUpdateOf(crises[c], crises'[c])
     /\ cyc_op'.op = "discovery" => DOMAIN crises \subseteq DOMAIN crises'
     /\ cyc_op'.op \in {"selection", "sweep"} => DOMAIN crises' \subseteq DOMAIN crises
     /\ cyc_op'.op \notin {"discovery", "selection", "sweep"}
          => DOMAIN crises' = DOMAIN crises]_vars

\* C17 witness: Discovery has created a row beside an existing one, and a
\* deep-scan unit has then written a verdict to a row
C17_Witness ==
  /\ cyc_op.op = "deep_scan"
  /\ \E c \in DOMAIN crises : c # 1 /\ crises[c].verdict_status # "PENDING"
  /\ 1 \in DOMAIN crises


\* every TimelineItem belongs to a Crisis row that exists
ItemsHaveCrisis ==
  \A i \in DOMAIN timeline_items : timeline_items[i].crisis_id \in DOMAIN crises

\* the detached runs whose crisis has been deleted
OrphanSeeds == {s \in seeds : s.crisis_id \notin DOMAIN crises}

\* C29: every TimelineItem refers to an existing Crisis in every reachable
\* state: a deletion (Selection or the retention sweep) removes the items of
\* the deleted crises, a detached run that executes after its crisis was
\* deleted changes neither table, and the runs and conclusion calls of the
\* cycle never add a Crisis row.
C29_NoOrphanItems ==
  /\ []ItemsHaveCrisis
  /\ [][\A i \in DOMAIN timeline_items' :
          timeline_items'[i].crisis_id \notin DOMAIN crises \ DOMAIN crises']_vars
  /\ [][(\E s \in OrphanSeeds : seeds' = seeds \ {s} /\ seeds' # seeds) =>
          /\ crises' = crises
          /\ timeline_items' = timeline_items]_vars
  /\ [][cyc_op'.op \in {"seed_run", "deep_scan"} =>
          DOMAIN crises' \subseteq DOMAIN crises]_vars

\* a detached run executed although Selection had deleted the crisis that
\* Discovery created it for, together with the crisis's TimelineItem
C29_Witness ==
  /\ cyc_op = [op |-> "seed_run", failed |-> FALSE]
  /\ seeds = {}
  /\ DOMAIN crises = {1}
  /\ \A i \in DOMAIN timeline_items : timeline_items[i].crisis_id = 1
  /\ cyc_pc \in {"DEEP_GATHERING", "DEEP_RUNNING"}


(***************************************************************************)
(* The deep-scan units of one batch: scanner_service.py                    *)
(* process_single_crisis_task, run concurrently by asyncio.gather          *)
(* (line 366), one unit per crisis of the batch, each with a session of    *)
(* its own.  A unit gives way to the others at every await: the search,    *)
(* the claim extraction, the store reads and the Verification Run.         *)
(***************************************************************************)
NumQueries == 2       \* queries = [keywords, keywords + " viral hoax"]

\* the claims the extraction returns for the articles of a search, in order;
\* the searches of different crises find the same article.  A search or an
\* extraction that fails, or finds less, yields a prefix of them
ArticleClaims == <<ClaimText>>
QueryYields == {Prefix(ArticleClaims, k) : k \in 0..Len(ArticleClaims)}

\* the crisis a unit was dispatched for: the crises of a batch are distinct
UnitCrisis(u) == u

InitUnits ==
  /\ crises = [c \in Units |-> CrisisRow("Crisis", 80, start_time - 100 + c)]
  /\ \E n \in 0..1 :
       timeline_items =
         [i \in 1..n |->
            [crisis_id |-> 1, claim_text |-> ClaimText,
             summary |-> OracleSummary, status |-> "VERIFIED"]]
  /\ adhoc_analyses = <<>>
  /\ now = start_time
  /\ u_pc = [u \in Units |-> "START"]
  /\ u_queries = [u \in Units |-> NumQueries]
  /\ u_claims = [u \in Units |-> <<>>]
  /\ u_run = [u \in Units |-> NoRun]
  /\ u_started = [u \in Units |-> {}]
  /\ u_concluded = [u \in Units |-> 0]
  /\ inv_pc = [i \in Invocations |-> "IDLE"]
  /\ inv_loaded = [i \in Invocations |-> None]
  /\ inv_answer = [i \in Invocations |-> NotCalled]
  /\ inv_writes = <<>>
  /\ con_pc = "IDLE" /\ con_crisis_id = None /\ con_answer = NotCalled
  /\ NoOracleCalls
  /\ IdleRun /\ IdleWork /\ IdleSel /\ IdleSched /\ IdleCyc /\ IdleDisc /\ IdleMerge

UnitFrame ==
  /\ UNCHANGED <<adhoc_analyses, now, oracle_calls, callVars, discVars, mergeVars>>
  /\ UNCHANGED <<con_pc, con_crisis_id, con_answer>>
  /\ UNCHANGED <<runVars, workVars, selVars, schedVars, cycVars>>

\* lines 304-310: get_crisis; a store exception or a missing row ends the
\* unit at once
UnitStart(u) ==
  /\ u_pc[u] = "START"
  /\ \E store_ok \in BOOLEAN :
       u_pc' = [u_pc EXCEPT ![u] =
                  IF store_ok /\ get_crisis(crises, UnitCrisis(u)) # None
                    THEN "LOOP" ELSE "ABORTED"]
  /\ UNCHANGED <<crises, timeline_items>>
  /\ UNCHANGED <<u_queries, u_claims, u_run, u_started, u_concluded>>
  /\ UnitFrame

\* lines 312-318: the search of the next query and the extraction of the
\* claims of its articles; a failed search or extraction yields no claim
UnitQuery(u) ==
  /\ u_pc[u] = "LOOP"
  /\ u_claims[u] = <<>>
  /\ u_queries[u] > 0
  /\ \E found \in QueryYields :
       u_claims' = [u_claims EXCEPT ![u] = found]
  /\ u_queries' = [u_queries EXCEPT ![u] = @ - 1]
  /\ UNCHANGED <<crises, timeline_items>>
  /\ UNCHANGED <<u_pc, u_run, u_started, u_concluded>>
  /\ UnitFrame

\* mutant: every extracted claim is verified
unit_starts_run_always(items, claim_text) == TRUE

\* line 322: if await crud.get_timeline_item_by_claim_text(...): continue
unit_starts_run(items, claim_text) ==
  get_timeline_item_by_claim_text(items, claim_text) = None

\* lines 320-327: the next extracted claim is looked up, and a Verification
\* Run is started for it unless a TimelineItem holds its text; a store
\* exception in the lookup ends the unit in its except branch (line 329)
UnitClaim(u) ==
  /\ u_pc[u] = "LOOP"
  /\ u_claims[u] # <<>>
  /\ \E store_ok \in BOOLEAN :
       LET claim_text == Head(u_claims[u])
       IN  IF ~store_ok
             THEN /\ u_pc' = [u_pc EXCEPT ![u] = "ABORTED"]
                  /\ UNCHANGED <<u_run, u_started, u_claims>>
           ELSE IF unit_starts_run(timeline_items, claim_text)
             THEN /\ u_run' = [u_run EXCEPT ![u] = claim_text]
                  /\ u_started' = [u_started EXCEPT ![u] = @ \cup {claim_text}]
                  /\ u_pc' = [u_pc EXCEPT ![u] = "RUN"]
                  /\ u_claims' = [u_claims EXCEPT ![u] = Tail(@)]
           ELSE /\ u_claims' = [u_claims EXCEPT ![u] = Tail(@)]
                /\ UNCHANGED <<u_run, u_started, u_pc>>
  /\ UNCHANGED <<crises, timeline_items>>
  /\ UNCHANGED <<u_queries, u_concluded>>
  /\ UnitFrame

\* lines 324-327: the Verification Run of the unit comes to its end (it
\* catches its own failures), with the conclusion it triggers itself
UnitRunDone(u) ==
  /\ u_pc[u] = "RUN"
  /\ \E synth \in CycleSynthOutcomes, concl \in CycleConclusionOutcomes :
       LET r == run_for_crisis(crises, timeline_items, u_run[u], UnitCrisis(u),
                               synth, concl, now, "ok")
       IN  /\ crises' = r.crises
           /\ timeline_items' = r.items
  /\ u_run' = [u_run EXCEPT ![u] = NoRun]
  /\ u_pc' = [u_pc EXCEPT ![u] = "LOOP"]
  /\ UNCHANGED <<u_queries, u_claims, u_started, u_concluded>>
  /\ UnitFrame

\* mutant: the unit leaves the conclusion to the runs it started
unit_conclusion_calls_unless_run(started) == IF started = {} THEN 1 ELSE 0

\* line 328: the unit-level conclusion, whatever happened in the loop
unit_conclusion_calls(started) == 1

\* line 328, after the loop over the queries
UnitConclude(u) ==
  /\ u_pc[u] = "LOOP"
  /\ u_claims[u] = <<>>
  /\ u_queries[u] = 0
  /\ \E concl \in CycleConclusionOutcomes :
       crises' = IF unit_conclusion_calls(u_started[u]) = 1
                   THEN synthesize_crisis_conclusion(crises, timeline_items,
                                                     UnitCrisis(u), concl, now)
                   ELSE crises
  /\ u_concluded' = [u_concluded EXCEPT ![u] = @ + unit_conclusion_calls(u_started[u])]
  /\ u_pc' = [u_pc EXCEPT ![u] = "DONE"]
  /\ UNCHANGED timeline_items
  /\ UNCHANGED <<u_queries, u_claims, u_run, u_started>>
  /\ UnitFrame

NextUnits ==
  \E u \in Units :
    UnitStart(u) \/ UnitQuery(u) \/ UnitClaim(u) \/ UnitRunDone(u) \/ UnitConclude(u)

SpecUnits == InitUnits /\ [][NextUnits]_vars

\* every await of a unit returns
FairSpecUnits == SpecUnits /\ WF_vars(NextUnits)

Aborted(u) == u_pc[u] = "ABORTED"
ClaimChecked(u) == u_claims[u] # <<>> /\ u_claims'[u] = Tail(u_claims[u])
RunStarted(u) == u_run[u] = NoRun /\ u_run'[u] # NoRun
Present(claim_text) ==
  \E i \in DOMAIN timeline_items : timeline_items[i].claim_text = claim_text

\* C33: a deep-scan unit starts a Verification Run for an extracted claim
\* text exactly when no TimelineItem holds that text at the time of the
\* check, so a text that is present is never verified again by the unit,
\* and a run starts only from such a check and for the text checked
C33_RunOnlyForAbsentClaim ==
  [][\A u \in Units :
       /\ ClaimChecked(u) =>
            (RunStarted(u) <=> ~Present(Head(u_claims[u])))
       /\ RunStarted(u) =>
            (ClaimChecked(u) /\ u_run'[u] = Head(u_claims[u]))]_vars

\* a unit verifies the claim it found absent at its check, and another
\* unit of the batch has verified and stored the same text
C33_Witness ==
  \E u, v \in Units :
    /\ u # v
    /\ u_pc[u] = "RUN" /\ u_run[u] = ClaimText
    /\ Present(ClaimText)
    /\ u_started[v] = {ClaimText} /\ u_pc[v] = "DONE"


C35_OneRunPerClaim ==
  \A u, v \in Units :
    (u # v /\ u_run[u] # NoRun) => u_run[u] # u_run[v]


(***************************************************************************)
(* One Discovery pass of the supervisor with its notifications:            *)
(* scanner_service.py start_monitoring lines 386-420, over                 *)
(* run_discovery_phase and analyze_and_assess_threats                      *)
(***************************************************************************)
NotifySeverity == 75   \* [c for c in new_threats if c.severity >= 75]
TopPicks == 3          \* top_picks = high_sev_crises[:3]
MaxAnswer == 4         \* most candidate descriptors in one modelled answer

\* the names of the descriptors of an answer, by position: names that have
\* nothing in common, or names that hold one another with mixed case
DistinctNames == <<"Flood", "Bridge Collapse", "Riot", "Quake", "Fire", "Storm">>
NestedNames == <<"Flood Warning", "FLOOD", "Flood", "flood warning issued", "Riot", "riot">>
AnswerNames == {DistinctNames, NestedNames}

AnswerSeverities ==
  {[kind |-> "int", value |-> v] : v \in {NotifySeverity - 1, NotifySeverity, 90}}
    \cup {[kind |-> "text", value |-> 0]}

AnswersOfLength(n) ==
  {[k \in 1..n |-> [name |-> names[k], severity |-> sv[k]]] :
     names \in AnswerNames, sv \in [1..n -> AnswerSeverities]}

PassOutcomes ==
  {[kind |-> k, data |-> <<>>] :
     k \in {"sources_raise", "no_signals", "oracle_raise", "malformed"}}
    \cup {[kind |-> "ok", data |-> l] : l \in UNION {AnswersOfLength(n) : n \in 0..MaxAnswer}}

\* the ids of a set of rows in the order of their creation
RECURSIVE InIdOrder(_)
InIdOrder(ids) ==
  IF ids = {} THEN <<>>
  ELSE LET first == CHOOSE i \in ids : \A j \in ids : i <= j
       IN  <<first>> \o InIdOrder(ids \ {first})

\* what analyze_and_assess_threats returns: new_crises (line 176), or []
\* from its except branch (lines 178-180) whatever it had created
returned_threats(ctbl, after, raised) ==
  IF raised THEN <<>> ELSE InIdOrder(DOMAIN after \ DOMAIN ctbl)

\* run_discovery_phase's return value: the ids of the new Crisis rows
discovered(ctbl, items, out, cycle, t, store_ok) ==
  LET start == [crises |-> ctbl, items |-> items, seeds |-> {}, raised |-> FALSE]
      done == assess_all(start, out.data, 1, cycle, t, store_ok)
  IN  IF out.kind # "ok" THEN <<>>
      ELSE returned_threats(ctbl, done.crises, done.raised)

RECURSIVE HighSeverityOf(_, _)
HighSeverityOf(tbl, list) ==
  IF list = <<>> THEN <<>>
  ELSE (IF tbl[Head(list)].severity >= NotifySeverity THEN <<Head(list)>> ELSE <<>>)
       \o HighSeverityOf(tbl, Tail(list))

NamesOf(tbl, list) == [k \in 1..Len(list) |-> tbl[list[k]].name]

Notification(crisis_id, count, names) ==
  [type |-> "CATASTROPHIC_ALERT", crisis_id |-> crisis_id, count |-> count,
   names |-> names]

\* lines 393-413: the notifications created for the crises Discovery
\* returned, in order
notify(tbl, threats, first_run) ==
  LET high_sev_crises == HighSeverityOf(tbl, threats)
      top_picks == Prefix(SortBySeverityDesc(tbl, high_sev_crises), TopPicks)
  IN  IF high_sev_crises = <<>> THEN <<>>
      ELSE IF first_run
        THEN <<Notification(None, Len(high_sev_crises), NamesOf(tbl, top_picks))>>
      ELSE [k \in 1..Len(high_sev_crises) |->
              Notification(high_sev_crises[k], 1,
                           NamesOf(tbl, <<high_sev_crises[k]>>))]

\* the store before the pass: nothing tracked yet, or one tracked crisis
\* with the TimelineItem Discovery seeded for it
TrackedName == "Downtown Flood"
InitDiscover ==
  /\ \E n \in 0..1 :
       /\ crises = [c \in 1..n |-> CrisisRow(TrackedName, 80, start_time - 1000)]
       /\ timeline_items =
            [i \in 1..n |->
               [crisis_id |-> 1, claim_text |-> "Signal Detected: " \o TrackedName,
                summary |-> "Automated verification agents have been deployed.",
                status |-> "UNCONFIRMED"]]
  /\ adhoc_analyses = <<>>
  /\ now = start_time
  /\ disc_pc = "START"
  /\ is_first_run \in BOOLEAN
  /\ notifications = <<>>
  /\ new_threats = <<>>
  /\ con_pc = "IDLE" /\ con_crisis_id = None /\ con_answer = NotCalled
  /\ inv_pc = [i \in Invocations |-> "IDLE"]
  /\ inv_loaded = [i \in Invocations |-> None]
  /\ inv_answer = [i \in Invocations |-> NotCalled]
  /\ inv_writes = <<>>
  /\ NoOracleCalls
  /\ IdleRun /\ IdleWork /\ IdleSel /\ IdleSched /\ IdleCyc /\ IdleUnits /\ IdleMerge

\* lines 386-420: Discovery, then the notifications for what it returned;
\* "except Exception" absorbs what the signal sources raise
DiscoveryPass ==
  /\ disc_pc = "START"
  /\ \E out \in PassOutcomes, store_ok \in BOOLEAN :
       LET cycle == IF is_first_run THEN 0 ELSE 1
           r == run_discovery_phase(crises, timeline_items, out, cycle, now, store_ok)
           threats == discovered(crises, timeline_items, out, cycle, now, store_ok)
       IN  /\ crises' = r.crises
           /\ timeline_items' = r.items
           /\ seeds' = seeds \cup r.seeds
           /\ new_threats' = threats
           /\ notifications' = notifications \o notify(r.crises, threats, is_first_run)
  /\ is_first_run' = FALSE
  /\ disc_pc' = "DONE"
  /\ UNCHANGED <<adhoc_analyses, now, oracle_calls>>
  /\ UNCHANGED <<cyc_pc, cycles, store_healthy, deep_start, cyc_op>>
  /\ UNCHANGED <<runVars, workVars, selVars, schedVars, conVars, callVars, unitVars, mergeVars>>

NextDiscover == DiscoveryPass

SpecDiscover == InitDiscover /\ [][NextDiscover]_vars

PassTaken == disc_pc = "START" /\ disc_pc' = "DONE"
Created == DOMAIN crises' \ DOMAIN crises
HighCreated == {c \in Created : crises'[c].severity >= NotifySeverity}
Emitted == SubSeq(notifications', Len(notifications) + 1, Len(notifications'))

\* names are those of as many of the high-severity crises created as the
\* summary takes, none of them less severe than one left out
NamesTopOf(names, high) ==
  \E top \in SUBSET high :
    /\ Cardinality(top) = Min(TopPicks, Cardinality(high))
    /\ \A a \in top, b \in high \ top : crises'[a].severity >= crises'[b].severity
    /\ Len(names) = Cardinality(top)
    /\ {names[k] : k \in DOMAIN names} = {crises'[c].name : c \in top}

\* C36: the first pass emits one aggregated notification naming the top
\* three of the crises it created with severity 75 or more, if there is one,
\* and none otherwise; a later pass emits one notification, carrying the
\* crisis id, for every crisis it created with severity 75 or more, and no
\* other
C36_NotificationsForCreated ==
  [][PassTaken =>
       IF is_first_run
         THEN IF HighCreated # {}
                THEN /\ Len(Emitted) = 1
                     /\ Emitted[1].crisis_id = None
                     /\ NamesTopOf(Emitted[1].names, HighCreated)
                ELSE Emitted = <<>>
         ELSE /\ Len(Emitted) = Cardinality(HighCreated)
              /\ {Emitted[k].crisis_id : k \in DOMAIN Emitted} = HighCreated]_vars

FuzzyMatches(name, tracked) == Contains(Fold(name), Fold(tracked))
NewItemsOf(c) ==
  {i \in DOMAIN timeline_items' \ DOMAIN timeline_items :
     timeline_items'[i].crisis_id = c}
NewSeedsOf(c) == {sd \in seeds' \ seeds : sd.crisis_id = c}

\* C37: a pass creates no Crisis whose name is held, case ignored, by the
\* name of a Crisis tracked before the pass or created earlier in the pass,
\* and for every Crisis it creates there is one new TimelineItem and one
\* detached Verification Run
C37_NoFuzzyDuplicate ==
  [][PassTaken =>
       \A c \in Created :
         /\ \A e \in DOMAIN crises : ~FuzzyMatches(crises'[c].name, crises[e].name)
         /\ \A e \in Created :
              e < c => ~FuzzyMatches(crises'[c].name, crises'[e].name)
         /\ Cardinality(NewItemsOf(c)) = 1
         /\ Cardinality(NewSeedsOf(c)) = 1]_vars

NamesTracked == {crises[c].name : c \in DOMAIN crises}

\* a pass over the nested names with nothing tracked before: the first and
\* the fourth name were new, the two between them were held by the first
C37_Witness ==
  /\ disc_pc = "DONE"
  /\ NamesTracked = {"Flood Warning", "flood warning issued"}
  /\ Cardinality(seeds) = 2
  /\ Len(timeline_items) = 2


(***************************************************************************)
(* The signal sources of Discovery: rss_service.py fetch_all_rss_feeds and *)
(* scanner_service.py _perform_social_listening, merged by                 *)
(* run_discovery_phase (lines 262-276)                                     *)
(***************************************************************************)
NumFeeds == 2          \* feeds _load_feeds returns
MaxEntries == 2        \* most fresh entries one modelled feed holds
MaxHits == 2           \* most hits the social queries return together

Urls == {"https://news.example/flood", "https://x.example/status/1"}
Article(url, type) == [url |-> url, type |-> type]
FeedArticles == {Article(u, "NEWS") : u \in Urls}
SocialArticles == {Article(u, "SOCIAL") : u \in Urls}

RECURSIVE Flatten(_)
Flatten(lists) == IF lists = <<>> THEN <<>> ELSE Head(lists) \o Flatten(Tail(lists))

\* rss_service lines 183-190: the first article of every url is kept
RECURSIVE Deduplicate(_, _)
Deduplicate(articles, seen_urls) ==
  IF articles = <<>> THEN <<>>
  ELSE IF Head(articles).url \in seen_urls
    THEN Deduplicate(Tail(articles), seen_urls)
    ELSE <<Head(articles)>> \o Deduplicate(Tail(articles), seen_urls \cup {Head(articles).url})

\* rss_service.fetch_all_rss_feeds over the results of the feeds
fetch_all_rss_feeds(results) == Deduplicate(Flatten(results), {})

\* line 273: all_items = results[0] + results[1]
merge_signals(rss, social) == rss \o social

InitMerge ==
  /\ merge_pc = "START"
  /\ feed_results = <<>>
  /\ social_hits = <<>>
  /\ all_items = <<>>
  /\ crises = <<>> /\ timeline_items = <<>> /\ adhoc_analyses = <<>>
  /\ now = start_time
  /\ con_pc = "IDLE" /\ con_crisis_id = None /\ con_answer = NotCalled
  /\ inv_pc = [i \in Invocations |-> "IDLE"]
  /\ inv_loaded = [i \in Invocations |-> None]
  /\ inv_answer = [i \in Invocations |-> NotCalled]
  /\ inv_writes = <<>>
  /\ NoOracleCalls
  /\ IdleRun /\ IdleWork /\ IdleSel /\ IdleSched /\ IdleCyc /\ IdleUnits /\ IdleDisc

MergeFrame ==
  /\ UNCHANGED <<storeVars, oracle_calls>>
  /\ UNCHANGED <<runVars, workVars, selVars, schedVars, conVars, callVars, unitVars>>
  /\ UNCHANGED <<discVars, cycVars>>

\* lines 267-270: the feeds are parsed and the social queries run; a source
\* that fails returns what it has
SourcesReturn ==
  /\ merge_pc = "START"
  /\ feed_results' \in [1..NumFeeds -> SeqsUpTo(FeedArticles, MaxEntries)]
  /\ social_hits' \in SeqsUpTo(SocialArticles, MaxHits)
  /\ merge_pc' = "FETCHED"
  /\ UNCHANGED all_items
  /\ MergeFrame

\* lines 270-277: the two lists are merged and handed to the relevance filter
MergeSignals ==
  /\ merge_pc = "FETCHED"
  /\ all_items' = merge_signals(fetch_all_rss_feeds(feed_results), social_hits)
  /\ merge_pc' = "MERGED"
  /\ UNCHANGED <<feed_results, social_hits>>
  /\ MergeFrame

NextMerge == SourcesReturn \/ MergeSignals

SpecMerge == InitMerge /\ [][NextMerge]_vars

\* C38: the merged list handed to the relevance filter holds no two items
\* with the same url
C38_MergedUrlsDistinct ==
  merge_pc = "MERGED" =>
    \A i, j \in DOMAIN all_items : all_items[i].url = all_items[j].url => i = j

====
